---------------------------- MODULE Spec2Model ----------------------------
(***************************************************************************)
(* A model of xsd2sqlschemaerd.py: the identifier normalizer, the type     *)
(* registry, the schema walker with its table / relationship accumulators  *)
(* and the dependency graph resolver.                                      *)
(*                                                                         *)
(* Python strings are TLA+ strings; TLC evaluates Len, \o, SubSeq, Head    *)
(* and Tail on them, so the text the program builds (column definitions,   *)
(* CREATE TABLE statements, relationship keys) is built and re-parsed here *)
(* character by character as the program does.                             *)
(***************************************************************************)
EXTENDS Integers, Sequences, FiniteSets, TLC

VARIABLES
    NAMESPACE_DICT,               \* namespace key -> prefix ("xs:")
    USER_TYPES,                   \* normalized type name -> type text or None
    HASH_TABLE_TABLES_GENERATED,  \* the keys of the dict (every value is 1)
    TABLE_COLUMNS,                \* table name -> set of column definitions
    TABLE_COLUMNS_keys,           \* the keys of TABLE_COLUMNS in insertion order
    dict_relationships,           \* "parent;fk" -> <<referenced, cardinality>>
    error,                        \* the exception that ended the run, or "none"
    pc,                           \* position of the run
    files_done,                   \* number of documents processed so far
    args,                         \* the command line: [failOnBadType, as_is]
    xsd_files,                    \* the command line: the documents to process
    hash_seed,                    \* the interpreter's string hash seed
    ops_done,                     \* number of accumulator operations applied
    last_op,                      \* the last accumulator operation and its effect
    norm_raw, norm_ns, norm_once, norm_twice,   \* the normalizer's input and results
    graph,                        \* [nodes, edges] of the dependency graph
    initial_graph,                \* the graph create_graph returned
    diagnostics,                  \* the "Removed edge ..." lines printed
    drop_order, create_order,     \* topological order and its reverse
    sql_script,                   \* sql: the script of CREATE TABLE statements
    arr_create_tables,            \* the CREATE TABLE statements
    list_drop_table_sentences, list_create_table_sentences,
    recursion_level,              \* look4element's recurse_level in the innermost call
    frames,                       \* depth of the interpreter's call stack
    entered                       \* the node the innermost look4element was called on

vars == <<NAMESPACE_DICT, USER_TYPES, HASH_TABLE_TABLES_GENERATED, TABLE_COLUMNS,
          TABLE_COLUMNS_keys, dict_relationships, error, pc, files_done, args,
          xsd_files, hash_seed, ops_done, last_op,
          norm_raw, norm_ns, norm_once, norm_twice,
          graph, initial_graph, diagnostics, drop_order, create_order, sql_script,
          arr_create_tables, list_drop_table_sentences, list_create_table_sentences,
          recursion_level, frames, entered>>

walkVars == <<USER_TYPES, HASH_TABLE_TABLES_GENERATED, TABLE_COLUMNS,
              TABLE_COLUMNS_keys, dict_relationships, error, files_done, args,
              xsd_files, hash_seed, ops_done, last_op>>
normVars == <<norm_raw, norm_ns, norm_once, norm_twice>>
depthVars == <<recursion_level, frames, entered>>
graphVars == <<graph, initial_graph, diagnostics, drop_order, create_order,
               sql_script, arr_create_tables, list_drop_table_sentences,
               list_create_table_sentences>>

(***************************************************************************)
(* Python values                                                           *)
(***************************************************************************)
\* Python's None (an absent attribute, an absent dictionary entry).
None == "<None>"

\* An assignment "x = value" followed by the statements Rest that read x.
Bind(value, Rest(_)) == Rest(value)

\* Python truthiness of a str-or-None value.
Truthy(s) == s # None /\ s # ""

\* The characters str.lstrip() and str.strip() remove, and \S does not match.
Whitespace == {" ", "\t", "\n", "\r"}

RECURSIVE LStrip(_)
LStrip(s) ==
    IF s = "" THEN ""
    ELSE IF Head(s) \in Whitespace THEN LStrip(Tail(s)) ELSE s

RECURSIVE RStrip(_)
RStrip(s) ==
    IF s = "" THEN ""
    ELSE IF SubSeq(s, Len(s), Len(s)) \in Whitespace
         THEN RStrip(SubSeq(s, 1, Len(s) - 1)) ELSE s

\* s.strip()
Strip(s) == RStrip(LStrip(s))

\* s.startswith(p)
StartsWith(s, p) == Len(s) >= Len(p) /\ SubSeq(s, 1, Len(p)) = p

\* The least element of a non-empty set of integers.
Min(S) == CHOOSE i \in S : \A j \in S : i <= j

\* The greatest element of a non-empty set of integers.
Max(S) == CHOOSE i \in S : \A j \in S : i >= j

\* The positions at which sub occurs in s.
Occurrences_of(s, sub) ==
    {i \in 1..(Len(s) - Len(sub) + 1) : SubSeq(s, i, i + Len(sub) - 1) = sub}

\* s.find(sub) as a 1-based index, 0 when sub does not occur (sub is not empty).
Find(s, sub) ==
    IF s = "" THEN 0
    ELSE LET hits == Occurrences_of(s, sub)
         IN IF hits = {} THEN 0 ELSE Min(hits)

\* sub in s
Contains(s, sub) == Find(s, sub) # 0

\* s.replace(old, new): every non-overlapping occurrence, left to right.
RECURSIVE Replace(_, _, _)
Replace(s, old, new) ==
    IF s = "" THEN ""
    ELSE LET i == Find(s, old)
         IN IF i = 0 THEN s
            ELSE SubSeq(s, 1, i - 1) \o new
                 \o Replace(SubSeq(s, i + Len(old), Len(s)), old, new)

\* s.split(sep): the list of pieces.
RECURSIVE Split(_, _)
Split(s, sep) ==
    IF s = "" THEN <<"">>
    ELSE LET i == Find(s, sep)
         IN IF i = 0 THEN <<s>>
            ELSE <<SubSeq(s, 1, i - 1)>>
                 \o Split(SubSeq(s, i + Len(sep), Len(s)), sep)

\* s.split(sep, 1): at most one split.
Split1(s, sep) ==
    LET i == Find(s, sep)
    IN IF i = 0 THEN <<s>>
       ELSE <<SubSeq(s, 1, i - 1), SubSeq(s, i + Len(sep), Len(s))>>

\* sep.join(list)
RECURSIVE Join(_, _)
Join(list, sep) ==
    IF list = <<>> THEN ""
    ELSE IF Len(list) = 1 THEN list[1]
    ELSE list[1] \o sep \o Join(Tail(list), sep)

\* The elements of a list, as a set.
Range(list) == {list[i] : i \in DOMAIN list}

\* The values of a dictionary.
Values(d) == {d[k] : k \in DOMAIN d}

(***************************************************************************)
(* Identifier normalizer                                                   *)
(***************************************************************************)
\* process_prefix: the prefix of "prefix:rest" is kept when it is a registered
\* prefix and replaced by ns's prefix otherwise; a value without ":" gets ns's
\* prefix in front.
process_prefix(value, namespace_dict, ns) ==
    LET two_points == ":"
        parts == Split1(value, two_points)
    IN IF Len(parts) = 2
       THEN IF (parts[1] \o ":") \in Values(namespace_dict)
            THEN parts[1] \o "_" \o parts[2]
            ELSE Replace(namespace_dict[ns], two_points, "") \o "_" \o parts[2]
       ELSE Replace(namespace_dict[ns], two_points, "") \o "_" \o value

\* The variant of the guard that asks for at least one registered namespace.
PrefixStepAppliesWithOneNamespace(namespace_dict, ns, string) ==
    /\ Cardinality(DOMAIN namespace_dict) >= 1
    /\ ns # None
    /\ LStrip(ns) # ""
    /\ LStrip(string) # ""

\* The guard of sql_normalize's prefix step, with the dictionary as a parameter.
PrefixStepApplies(namespace_dict, ns, string) ==
    /\ Cardinality(DOMAIN namespace_dict) > 1
    /\ ns # None
    /\ LStrip(ns) # ""
    /\ LStrip(string) # ""

\* sql_normalize with the global NAMESPACE_DICT passed explicitly.
sql_normalize_in(namespace_dict, string0, ns) ==
    LET s0 == IF Truthy(string0) THEN string0 ELSE ""
        s1 == LStrip(s0)
        s2 == Replace(s1, "-", "_")
        s3 == Replace(s2, ".", "_")
        WithPrefix(string) ==
            IF PrefixStepApplies(namespace_dict, ns, string)
            THEN process_prefix(string, namespace_dict, ns)
            ELSE string
    IN WithPrefix(Replace(s3, " ", "_"))

sql_normalize(string, ns) == sql_normalize_in(NAMESPACE_DICT, string, ns)

(***************************************************************************)
(* Type registry                                                           *)
(***************************************************************************)
MAX_RECURSE_LEVEL == 1000

CONSTANT_COUNTER_CHOICE_STR == "/*counter_choice="

\* The built-in table, as <<XSD type, SQL Server type or None>>.
DEFX2SQLSERVER_items ==
    << <<"string", "nvarchar(max)">>, <<"boolean", "bit">>,
       <<"decimal", "decimal(18,2)">>, <<"float", "float">>,
       <<"double", "float">>, <<"duration", "time">>,
       <<"dateTime", "datetime2">>, <<"time", "time">>, <<"date", "date">>,
       <<"gYearMonth", "datetime2">>, <<"gYear", "datetime2">>,
       <<"gMonthDay", "datetime2">>, <<"gDay", "datetime2">>,
       <<"gMonth", "datetime2">>, <<"hexBinary", "varbinary(max)">>,
       <<"base64Binary", "varbinary(max)">>, <<"anyURI", "nvarchar(max)">>,
       <<"QName", None>>, <<"NOTATION", None>>,
       <<"normalizedString", "nvarchar(max)">>, <<"token", "nvarchar(max)">>,
       <<"language", "nvarchar(max)">>, <<"NMTOKEN", None>>,
       <<"NMTOKENS", None>>, <<"Name", "nvarchar(max)">>,
       <<"NCName", "nvarchar(max)">>, <<"ID", None>>, <<"IDREF", None>>,
       <<"IDREFS", None>>, <<"ENTITY", None>>, <<"ENTITIES", None>>,
       <<"integer", "bigint">>, <<"nonPositiveInteger", "bigint">>,
       <<"negativeInteger", "bigint">>, <<"long", "bigint">>, <<"int", "int">>,
       <<"short", "smallint">>, <<"byte", "tinyint">>,
       <<"nonNegativeInteger", "bigint">>, <<"unsignedLong", "bigint">>,
       <<"unsignedInt", "int">>, <<"unsignedShort", "smallint">>,
       <<"unsignedByte", "tinyint">>, <<"positiveInteger", "bigint">> >>

DEFX2SQLSERVER ==
    [k \in {it[1] : it \in Range(DEFX2SQLSERVER_items)} |->
        (CHOOSE it \in Range(DEFX2SQLSERVER_items) : it[1] = k)[2]]

\* What an evaluation yields when it raises TypeError instead of a value.
RAISED_TypeError == "<TypeError>"

\* SDict.__getitem__'s "value % self": a str without conversion specifiers is
\* returned as it is, None has no "%" operator (TypeError).
SDict_format(value) == IF value = None THEN RAISED_TypeError ELSE value

\* SDict.get: only KeyError is caught.
SDict_get(item) ==
    IF item \notin DOMAIN DEFX2SQLSERVER THEN None
    ELSE SDict_format(DEFX2SQLSERVER[item])

\* dict.get on a plain dictionary.
DictGet(d, key) == IF key \in DOMAIN d THEN d[key] ELSE None

\* d[key] = value
DictSet(d, key, value) ==
    [k \in DOMAIN d \cup {key} |-> IF k = key THEN value ELSE d[k]]

\* del d[key]
DictDel(d, key) == [k \in DOMAIN d \ {key} |-> d[k]]

EmptyDict == [k \in {} |-> None]

(***************************************************************************)
(* int() and str() on occurrence bounds                                    *)
(***************************************************************************)
Digits == <<"0", "1", "2", "3", "4", "5", "6", "7", "8", "9">>

\* str.isdigit()
RECURSIVE IsDigit(_)
IsDigit(s) ==
    /\ s # ""
    /\ Head(s) \in Range(Digits)
    /\ (Len(s) = 1 \/ IsDigit(Tail(s)))

DigitValue(c) == (CHOOSE i \in DOMAIN Digits : Digits[i] = c) - 1

\* int(s) for a string of digits.
RECURSIVE ParseIntFrom(_, _)
ParseIntFrom(s, acc) ==
    IF s = "" THEN acc
    ELSE ParseIntFrom(Tail(s), 10 * acc + DigitValue(Head(s)))

ParseInt(s) == ParseIntFrom(s, 0)

\* str(n) for n >= 0.
RECURSIVE IntToStr(_)
IntToStr(n) ==
    IF n < 10 THEN Digits[n + 1]
    ELSE IntToStr(n \div 10) \o Digits[(n % 10) + 1]

(***************************************************************************)
(* The parsed schema tree.  A node carries its tag ("{uri}element"), the   *)
(* attributes the program reads (None when absent) and its children.       *)
(***************************************************************************)
\* el.get(a, default)
AttrOr(el, a, default) == IF el[a] = None THEN default ELSE el[a]

\* el.findall(tag): the direct children with that tag, in document order.
FindAll(el, tag) == SelectSeq(el.kids, LAMBDA k : k.tag = tag)

\* Every descendant of a node in document order (".//").
RECURSIVE Descendants(_)
RECURSIVE DescendantsOfList(_)
Descendants(el) == DescendantsOfList(el.kids)
DescendantsOfList(kids) ==
    IF kids = <<>> THEN <<>>
    ELSE <<Head(kids)>> \o Descendants(Head(kids)) \o DescendantsOfList(Tail(kids))

\* The None that stands where an element is expected.
NoElement ==
    [tag |-> None, name |-> None, type |-> None, ref |-> None,
     minOccurs |-> None, maxOccurs |-> None, nillable |-> None,
     base |-> None, kids |-> <<>>]

\* find_complex_type: the first complexType anywhere below the root with that
\* name, or None.
find_complex_type(xsd_tree, ns, type_name) ==
    IF type_name = None THEN NoElement
    ELSE LET complex_types ==
                 SelectSeq(Descendants(xsd_tree),
                           LAMBDA ct : ct.tag = ns \o "complexType"
                                       /\ ct.name = type_name)
         IN IF complex_types = <<>> THEN NoElement ELSE Head(complex_types)

is_complex_type(root, ns, type_name) ==
    find_complex_type(root, ns, type_name) # NoElement

\* The variant that reports every unbounded upper bound as "1..*".
get_cardinality_unbounded_from_one(element) ==
    LET min_occurs == ParseInt(AttrOr(element, "minOccurs", "1"))
        max_attr == AttrOr(element, "maxOccurs", "1")
    IN IF max_attr = "unbounded" THEN "1..*"
       ELSE IF min_occurs = 0 /\ ParseInt(max_attr) = 1 THEN "0..1"
       ELSE IntToStr(min_occurs) \o ".." \o IntToStr(ParseInt(max_attr))

\* The variant that looks at minOccurs only.
get_nullable_attribute_min_occurs_only(el, col_definition) ==
    IF ParseInt(AttrOr(el, "minOccurs", "1")) = 0
    THEN col_definition \o " NULL"
    ELSE col_definition \o " NOT NULL"

(***************************************************************************)
(* Cardinality and nullability                                             *)
(***************************************************************************)
get_cardinality(element) ==
    LET min_occurs == ParseInt(AttrOr(element, "minOccurs", "1"))
        max_attr == AttrOr(element, "maxOccurs", "1")
        max_occurs == IF max_attr = "unbounded" THEN "*"
                      ELSE IntToStr(ParseInt(max_attr))
    IN IF min_occurs = 1 /\ max_occurs = "*" THEN "1..*"
       ELSE IF min_occurs = 0 /\ max_occurs = "1" THEN "0..1"
       ELSE IntToStr(min_occurs) \o ".." \o max_occurs

\* The variant that forgets the "integer greater than 1" case.
cardinality_right_is_n_star_only(cardinality) ==
    LET s == Split(cardinality, "..")
    IN s[2] = "*"

cardinality_right_is_n(cardinality) ==
    LET s == Split(cardinality, "..")
    IN s[2] = "*" \/ (IsDigit(s[2]) /\ ParseInt(s[2]) > 1)

generate_str_counter_choice(counter_choice) ==
    IF counter_choice > 0
    THEN CONSTANT_COUNTER_CHOICE_STR \o IntToStr(counter_choice) \o "*/"
    ELSE ""

\* str.lower(), letter by letter.
UpperLetters == "ABCDEFGHIJKLMNOPQRSTUVWXYZ"
LowerLetters == "abcdefghijklmnopqrstuvwxyz"

LowerChar(c) ==
    LET i == Find(UpperLetters, c)
    IN IF i = 0 THEN c ELSE SubSeq(LowerLetters, i, i)

RECURSIVE Lower(_)
Lower(s) == IF s = "" THEN "" ELSE LowerChar(Head(s)) \o Lower(Tail(s))

get_nullable_attribute(el, col_definition) ==
    LET min_occurs == ParseInt(AttrOr(el, "minOccurs", "1"))
        nillable == Lower(AttrOr(el, "nillable", "false")) = "true"
    IN IF min_occurs = 0 \/ nillable
       THEN col_definition \o " NULL"
       ELSE col_definition \o " NOT NULL"

\* The variant that ignores the choice counter.
get_nullable_attribute_ignoring_choice(counter_choice, el, col_definition) ==
    get_nullable_attribute(el, col_definition)

get_nullable_attribute_from_col_definition(counter_choice, el, col_definition) ==
    IF counter_choice > 0
    THEN col_definition \o " NULL" \o generate_str_counter_choice(counter_choice)
    ELSE get_nullable_attribute(el, col_definition)

(***************************************************************************)
(* Table / column accumulator.  g is the record of the program's globals   *)
(* (and the relationship dictionary of the current document); g.raised is  *)
(* the exception in flight, "none" when there is none.                     *)
(***************************************************************************)
Raise(g, exception) == [g EXCEPT !.raised = exception]

Raised(g) == g.raised # "none"

norm(g, string, ns) == sql_normalize_in(g.NAMESPACE_DICT, string, ns)

create_primary_key(g, table_name, ns) ==
    norm(g, table_name \o "Id", ns) \o " bigint PRIMARY KEY NOT NULL"

get_parent_table_name(g, parent, ns) ==
    IF parent # None THEN norm(g, parent, ns) ELSE ""

get_foreign_key_name(field_fk_name, parent_table_fk) ==
    "FK_" \o parent_table_fk \o "_" \o field_fk_name

\* The list [primary key] + cols.split(', ').
NewCols(g, cols, table_name, ns) ==
    <<create_primary_key(g, table_name, ns)>>
    \o (IF cols # None /\ LStrip(cols) # "" THEN Split(cols, ", ") ELSE <<>>)

\* The variant that stores the computed symmetric difference.
MergeColumnsSymmetricDifference(existing_cols_set, new_cols) ==
    (existing_cols_set \ Range(new_cols)) \cup (Range(new_cols) \ existing_cols_set)

\* The variant that overwrites the table's entry.
MergeColumnsOverwrite(existing_cols_set, new_cols) == Range(new_cols)

\* TABLE_COLUMNS[name].update(new_cols)
MergeColumns(existing_cols_set, new_cols) == existing_cols_set \cup Range(new_cols)

create_table_in_sql_sentence(g, cols, table_name, ns) ==
    IF table_name = None THEN Raise(g, "TypeError")
    ELSE
    LET Commit(new_cols, normalized_table_name) ==
            [g EXCEPT
               !.TABLE_COLUMNS =
                   DictSet(@, normalized_table_name,
                           IF normalized_table_name \in DOMAIN g.TABLE_COLUMNS
                           THEN MergeColumns(g.TABLE_COLUMNS[normalized_table_name],
                                             new_cols)
                           ELSE Range(new_cols)),
               !.TABLE_COLUMNS_keys =
                   IF normalized_table_name \in DOMAIN g.TABLE_COLUMNS THEN @
                   ELSE Append(@, normalized_table_name),
               !.HASH_TABLE_TABLES_GENERATED = @ \cup {normalized_table_name}]
    IN Commit(NewCols(g, cols, table_name, ns), norm(g, table_name, ns))

\* The variant that reports every table as created.
table_was_created_always(g, el, ns) == TRUE

table_was_created(g, el, ns) ==
    norm(g, el.name, ns) \in g.HASH_TABLE_TABLES_GENERATED

concat_cols(cols, previous_cols) ==
    IF previous_cols = None THEN cols
    ELSE IF LStrip(previous_cols) = "" THEN cols
    ELSE IF cols # None /\ LStrip(cols) # "" THEN cols \o ", " \o previous_cols
    ELSE previous_cols

(***************************************************************************)
(* Relationship records                                                    *)
(***************************************************************************)
RelationshipKey(parent_table, foreign_key_name) ==
    parent_table \o ";" \o foreign_key_name

remove_relationship_dict_relationships(rels, parent_table, foreign_key_name) ==
    LET key == RelationshipKey(parent_table, foreign_key_name)
    IN IF key \in DOMAIN rels THEN DictDel(rels, key) ELSE rels

add_relationship_dict_relationships(rels, parent_table, foreign_key_name, table_reference_name, cardinality, replace_previous_relationship) ==
    LET key == RelationshipKey(parent_table, foreign_key_name)
    IN IF key \notin DOMAIN rels \/ replace_previous_relationship
       THEN DictSet(rels, key, << <<table_reference_name, cardinality>> >>)
       ELSE rels

(***************************************************************************)
(* Foreign-key and cardinality resolver                                    *)
(***************************************************************************)
\* The column and constraint the "many" branch commits to the referenced table.
ManyFkColumnName(parent_table_fk) == parent_table_fk \o "Id" \o "_" \o IntToStr(0)

ManyFkConstraint(foreign_key_name_update, parent_table_fk) ==
    "CONSTRAINT " \o foreign_key_name_update \o " FOREIGN KEY ("
    \o ManyFkColumnName(parent_table_fk) \o ") REFERENCES " \o parent_table_fk
    \o "(" \o parent_table_fk \o "Id" \o ")"

\* The constraint the "one" branch appends to the parent's columns.
OneFkConstraint(foreign_key_name, fk_field_normalized, table_reference_name_fk_normalized) ==
    "CONSTRAINT " \o foreign_key_name \o " FOREIGN KEY (" \o fk_field_normalized
    \o ") REFERENCES " \o table_reference_name_fk_normalized
    \o "(" \o table_reference_name_fk_normalized \o "Id" \o ")"

\* The variant of the "many" branch that seeds a blank column list with the
\* primary key of the referenced table.
ResolveManySeedingReferencedKey(g, el, cols, parent, field_fk_name, table_reference_name, counter_choice, ns, fk_field_normalized, parent_table_fk, table_reference_name_fk_normalized, cardinality) ==
    LET foreign_key_name == get_foreign_key_name(fk_field_normalized, parent_table_fk)
        foreign_key_name_update == get_foreign_key_name(field_fk_name, parent_table_fk)
        rels == add_relationship_dict_relationships(
                    remove_relationship_dict_relationships(
                        g.dict_relationships, parent_table_fk, foreign_key_name),
                    parent_table_fk, foreign_key_name_update,
                    table_reference_name_fk_normalized, cardinality, TRUE)
        new_col_definition ==
            get_nullable_attribute_from_col_definition(
                counter_choice, el, ManyFkColumnName(parent_table_fk) \o " bigint")
        cols_update ==
            new_col_definition \o ", "
            \o ManyFkConstraint(foreign_key_name_update, parent_table_fk)
        blank == ~Truthy(cols) \/ LStrip(cols) = ""
        Return(g1) ==
            IF blank /\ parent = None /\ ~Raised(g1)
            THEN [g |-> Raise(g1, "TypeError"), cols |-> cols]
            ELSE [g |-> g1,
                  cols |-> IF blank THEN create_primary_key(g, table_reference_name, ns) ELSE cols]
    IN Return(create_table_in_sql_sentence([g EXCEPT !.dict_relationships = rels],
                                           cols_update, table_reference_name, ns))

\* The "many" branch of create_fk_field: the record of the parent is replaced,
\* the column and the constraint go to the referenced table.
ResolveMany(g, el, cols, parent, field_fk_name, table_reference_name, counter_choice, ns, fk_field_normalized, parent_table_fk, table_reference_name_fk_normalized, cardinality) ==
    LET foreign_key_name == get_foreign_key_name(fk_field_normalized, parent_table_fk)
        foreign_key_name_update == get_foreign_key_name(field_fk_name, parent_table_fk)
        rels == add_relationship_dict_relationships(
                    remove_relationship_dict_relationships(
                        g.dict_relationships, parent_table_fk, foreign_key_name),
                    parent_table_fk, foreign_key_name_update,
                    table_reference_name_fk_normalized, cardinality, TRUE)
        new_col_definition ==
            get_nullable_attribute_from_col_definition(
                counter_choice, el, ManyFkColumnName(parent_table_fk) \o " bigint")
        cols_update ==
            new_col_definition \o ", "
            \o ManyFkConstraint(foreign_key_name_update, parent_table_fk)
        blank == ~Truthy(cols) \/ LStrip(cols) = ""
        Return(g1) ==
            IF blank /\ parent = None /\ ~Raised(g1)
            THEN [g |-> Raise(g1, "TypeError"), cols |-> cols]
            ELSE [g |-> g1,
                  cols |-> IF blank THEN create_primary_key(g, parent, ns) ELSE cols]
    IN Return(create_table_in_sql_sentence([g EXCEPT !.dict_relationships = rels],
                                           cols_update, table_reference_name, ns))

\* The "one" branch: the column and the constraint are appended to cols.
ResolveOne(g, el, cols, table_reference_name, counter_choice, ns, fk_field_normalized, parent_table_fk, table_reference_name_fk_normalized, cardinality) ==
    LET foreign_key_name == get_foreign_key_name(fk_field_normalized, parent_table_fk)
        rels == add_relationship_dict_relationships(
                    g.dict_relationships, parent_table_fk, foreign_key_name,
                    table_reference_name_fk_normalized, cardinality, FALSE)
        new_col_definition ==
            get_nullable_attribute_from_col_definition(
                counter_choice, el, fk_field_normalized \o " bigint")
        blank == ~Truthy(cols) \/ LStrip(cols) = ""
    IN [g |-> create_table_in_sql_sentence([g EXCEPT !.dict_relationships = rels],
                                           "", table_reference_name, ns),
        cols |-> (IF blank THEN "" ELSE cols \o ", ") \o new_col_definition \o ", "
                 \o OneFkConstraint(foreign_key_name, fk_field_normalized,
                                    table_reference_name_fk_normalized)]

\* The branch of create_fk_field by the cardinality of the element.
ResolveByCardinality(g, el, cols, parent, field_fk_name, table_reference_name, counter_choice, ns, fk_field_normalized, parent_table_fk, table_reference_name_fk_normalized, cardinality) ==
    IF cardinality_right_is_n(cardinality)
    THEN ResolveMany(g, el, cols, parent, field_fk_name, table_reference_name,
                     counter_choice, ns, fk_field_normalized, parent_table_fk,
                     table_reference_name_fk_normalized, cardinality)
    ELSE ResolveOne(g, el, cols, table_reference_name, counter_choice, ns,
                    fk_field_normalized, parent_table_fk,
                    table_reference_name_fk_normalized, cardinality)

\* Returns [g, cols].
create_fk_field(g, el, cols, parent, field_fk_name, table_reference_name, counter_choice, ns) ==
    IF field_fk_name = None \/ table_reference_name = None
    THEN [g |-> Raise(g, "TypeError"), cols |-> cols]
    ELSE ResolveByCardinality(
             g, el, cols, parent, field_fk_name, table_reference_name,
             counter_choice, ns,
             norm(g, field_fk_name \o "Id", ns),
             get_parent_table_name(g, parent, ns),
             norm(g, table_reference_name, ns),
             get_cardinality(el))

(***************************************************************************)
(* Schema walker                                                           *)
(***************************************************************************)
\* The type lookup of process_element: DEFX2SQLSERVER.get(k) or
\* USER_TYPES.get(sql_normalize(k, ns)) or None.
LookupSqlType(g, k, ns) ==
    LET builtin == SDict_get(k)
    IN IF builtin = RAISED_TypeError THEN RAISED_TypeError
       ELSE IF Truthy(builtin) THEN builtin
       ELSE LET user == DictGet(g.USER_TYPES, norm(g, k, ns))
            IN IF Truthy(user) THEN user ELSE None

\* The second lookup: a type text that is not itself a SQL Server type is looked
\* up in the built-in table once more.
RevalidateSqlType(sql_type) ==
    IF sql_type \notin Values(DEFX2SQLSERVER) THEN SDict_get(sql_type) ELSE sql_type

\* "%s %s" % (col_name, sql_type): None prints as "None".
FormatColumn(col_name, sql_type) ==
    col_name \o " " \o (IF sql_type = None THEN "None" ELSE sql_type)

\* How process_element leaves, for an element that is not a reference and does
\* not name a table or a complex type: with the column appended, with an
\* exception, with the column list as it is, with a foreign key to the complex
\* type its type names, or off its end.  sql_type is the first lookup of the
\* type, sql_type2 the lookup of its result.
ExitOfTypedElement(g, el, parent, fail, normalize, counter_choice, ns, root, thisType, sql_type, sql_type2) ==
    LET col_name0 == IF Truthy(el.name) THEN el.name ELSE el.ref
        col_name == IF normalize THEN norm(g, col_name0, ns) ELSE col_name0
    IN IF sql_type = RAISED_TypeError THEN [kind |-> "raise", exception |-> "TypeError"]
       ELSE IF ~Truthy(sql_type) /\ fail
       THEN [kind |-> "raise", exception |-> "InvalidXMLType"]
       ELSE IF Truthy(sql_type)
       THEN IF sql_type2 = RAISED_TypeError
            THEN [kind |-> "raise", exception |-> "TypeError"]
            ELSE IF ~Truthy(sql_type2) /\ fail
            THEN [kind |-> "raise", exception |-> "InvalidXMLType"]
            ELSE IF col_name0 = None THEN [kind |-> "cols"]
            ELSE [kind |-> "column",
                  col_definition |->
                      get_nullable_attribute_from_col_definition(
                          counter_choice, el, FormatColumn(col_name, sql_type2))]
       ELSE IF parent # None /\ LStrip(parent) # ""
               /\ is_complex_type(root, ns, thisType)
       THEN [kind |-> "fk", field_fk_name |-> el.name,
             table_reference_name |-> thisType]
       ELSE [kind |-> "end"]

\* How process_element leaves: the return statement, or the exception.
ExitOf(g, el, parent, fail, normalize, counter_choice, ns, root) ==
    LET thisType == IF Truthy(el.type) THEN el.type
                    ELSE IF Truthy(el.ref) THEN el.ref ELSE "string"
    IN IF norm(g, el.name, ns) \in g.HASH_TABLE_TABLES_GENERATED
          /\ parent # None /\ parent # ""
       THEN [kind |-> "fk", field_fk_name |-> el.name, table_reference_name |-> el.name]
       ELSE IF parent # None /\ LStrip(parent) # ""
               /\ is_complex_type(root, ns, el.name)
       THEN [kind |-> "fk", field_fk_name |-> el.name, table_reference_name |-> el.name]
       ELSE IF el.ref # None
       THEN [kind |-> "fk",
             field_fk_name |-> IF Truthy(el.name) THEN el.name ELSE el.ref,
             table_reference_name |-> thisType]
       ELSE Bind(LookupSqlType(g, Replace(thisType, g.NAMESPACE_DICT[ns], ""), ns),
                 LAMBDA sql_type :
            Bind(IF Truthy(sql_type) /\ sql_type # RAISED_TypeError
                 THEN RevalidateSqlType(sql_type) ELSE sql_type,
                 LAMBDA sql_type2 :
            ExitOfTypedElement(g, el, parent, fail, normalize, counter_choice, ns,
                               root, thisType, sql_type, sql_type2)))

\* Returns [g, cols]; cols is None where the function ends without a return.
process_element(g, el, parent, fail, normalize, counter_choice, cols, ns, root) ==
    Bind(ExitOf(g, el, parent, fail, normalize, counter_choice, ns, root),
         LAMBDA exit :
    CASE exit.kind = "fk" ->
            create_fk_field(g, el, cols, parent, exit.field_fk_name,
                            exit.table_reference_name, counter_choice, ns)
      [] exit.kind = "raise" -> [g |-> Raise(g, exit.exception), cols |-> cols]
      [] exit.kind = "cols" -> [g |-> g, cols |-> cols]
      [] exit.kind = "column" ->
            [g |-> g,
             cols |-> (IF ~Truthy(cols) THEN "" ELSE cols \o ", ")
                      \o exit.col_definition]
      [] exit.kind = "end" -> [g |-> g, cols |-> None])

\* The variant in which an unnamed node does not inherit the parent's name.
NameOnly(e, parent) == e.name

\* e.get('name') or parent
NameOr(e, parent) == IF Truthy(e.name) THEN e.name ELSE parent

\* The children the four loops of look4element visit, in the order in which
\* they visit them: the <element>, the <complexType>, the <sequence> and the
\* <choice> children.
ChildrenOf(el, ns) ==
    FindAll(el, ns \o "element") \o FindAll(el, ns \o "complexType")
    \o FindAll(el, ns \o "sequence") \o FindAll(el, ns \o "choice")

RECURSIVE look4element(_, _, _, _, _, _, _, _, _)
RECURSIVE LoopChildren(_, _, _, _, _, _, _, _, _, _, _)

\* The four loops of look4element over the children left in kids.  Each child
\* is recursed into (rez); an <element> and a <complexType> are then processed
\* against the current column list with the counter of the call (pe), a
\* <sequence> is not processed, and a <choice> increments
\* current_counter_choice and is recursed into and processed with it.
LoopChildren(g, root, ns, kids, parent, recurse_level, fail, normalize, counter_choice, current_counter_choice, cols) ==
    IF kids = <<>> \/ Raised(g) THEN [g |-> g, cols |-> cols]
    ELSE
    LET e == Head(kids)
        is_sequence == e.tag = ns \o "sequence"
        is_choice == e.tag = ns \o "choice"
        counter == IF is_choice THEN current_counter_choice + 1
                   ELSE current_counter_choice
    IN
    Bind(look4element(g, root, ns, e, NameOr(e, parent), recurse_level + 1, fail,
                      TRUE, IF is_choice THEN counter ELSE 0),
         LAMBDA rez :
    IF Raised(rez.g) THEN [g |-> rez.g, cols |-> cols]
    ELSE IF is_sequence
    THEN LoopChildren(rez.g, root, ns, Tail(kids), parent, recurse_level, fail,
                      normalize, counter_choice, counter, cols)
    ELSE
    Bind(process_element(rez.g, e, parent, fail, normalize,
                         IF is_choice THEN counter ELSE counter_choice,
                         concat_cols(cols, rez.cols), ns, root),
         LAMBDA pe :
    IF Raised(pe.g) THEN pe
    ELSE LoopChildren(pe.g, root, ns, Tail(kids), parent, recurse_level, fail,
                      normalize, counter_choice, counter, pe.cols)))

\* Returns [g, children, cols].
look4element(g, root, ns, el, parent, recurse_level, fail, normalize, counter_choice) ==
    IF recurse_level > MAX_RECURSE_LEVEL
    THEN [g |-> Raise(g, "MaxRecursion"), children |-> FALSE, cols |-> ""]
    ELSE
    LET children == ChildrenOf(el, ns) # <<>>
        thisType == el.type
    IN
    Bind(LoopChildren(g, root, ns, ChildrenOf(el, ns), parent, recurse_level, fail,
                      normalize, counter_choice, counter_choice, ""),
         LAMBDA l4 :
    IF Raised(l4.g) THEN [g |-> l4.g, children |-> children, cols |-> l4.cols]
    ELSE
    \* The columns gathered at this level are committed to the parent.
    Bind(IF /\ Truthy(l4.cols)
            /\ parent # None /\ LStrip(parent) # ""
            /\ counter_choice = 0
         THEN [g |-> create_table_in_sql_sentence(l4.g, l4.cols, parent, ns),
               cols |-> ""]
         ELSE l4,
         LAMBDA l5 :
    IF Raised(l5.g) \/ children \/ thisType = None
    THEN [g |-> l5.g, children |-> children, cols |-> l5.cols]
    ELSE
    \* The alias step: the complexType the element's type names is walked
    \* and committed with its primary key if it has no table yet.
    Bind(find_complex_type(root, ns, thisType),
         LAMBDA complex_type :
    IF complex_type = NoElement
    THEN [g |-> l5.g, children |-> children, cols |-> l5.cols]
    ELSE
    Bind(look4element(l5.g, root, ns, complex_type, NameOr(complex_type, parent),
                      recurse_level + 1, fail, TRUE, counter_choice),
         LAMBDA rez :
    [g |-> IF Raised(rez.g) \/ table_was_created(rez.g, complex_type, ns)
           THEN rez.g
           ELSE create_table_in_sql_sentence(rez.g, "", complex_type.name, ns),
     children |-> TRUE,
     cols |-> l5.cols]))))

(***************************************************************************)
(* Pre-pass over the user-declared types                                   *)
(***************************************************************************)
RECURSIVE BuildUserTypesElements(_, _, _)
BuildUserTypesElements(g, ns, els) ==
    IF els = <<>> \/ Raised(g) THEN g
    ELSE LET el == Head(els)
             value == SDict_get(Replace(el.type, g.NAMESPACE_DICT[ns], ""))
             g1 == IF ~(Truthy(el.name) /\ Truthy(el.type)) THEN g
                   ELSE IF value = RAISED_TypeError THEN Raise(g, "TypeError")
                   ELSE [g EXCEPT !.USER_TYPES = DictSet(@, norm(g, el.name, ns), value)]
         IN BuildUserTypesElements(g1, ns, Tail(els))

RECURSIVE BuildUserTypesSimpleTypes(_, _, _)
BuildUserTypesSimpleTypes(g, ns, els) ==
    IF els = <<>> \/ Raised(g) THEN g
    ELSE LET el == Head(els)
             restrs == FindAll(el, ns \o "restriction")
             g1 == IF restrs = <<>> THEN Raise(g, "AttributeError")
                   ELSE IF Head(restrs).base = None THEN Raise(g, "AttributeError")
                   ELSE [g EXCEPT !.USER_TYPES =
                            DictSet(@, norm(g, el.name, ns),
                                    Replace(Head(restrs).base, g.NAMESPACE_DICT[ns], ""))]
         IN BuildUserTypesSimpleTypes(g1, ns, Tail(els))

build_user_types(g, ns, root_element) ==
    BuildUserTypesSimpleTypes(
        BuildUserTypesElements(g, ns, FindAll(root_element, ns \o "element")),
        ns, FindAll(root_element, ns \o "simpleType"))

(***************************************************************************)
(* Processing one document                                                 *)
(***************************************************************************)
\* s.rfind(ch) as a 1-based index, 0 when ch does not occur.
RFind(s, ch) ==
    LET hits == Occurrences_of(s, ch)
    IN IF hits = {} THEN 0 ELSE Max(hits)

\* replace_characters on a file name without directories: the name of the
\* master table of the document.
replace_characters(file_name) ==
    LET last_dot_index == RFind(file_name, ".")
    IN IF last_dot_index # 0
       THEN Replace(Replace(SubSeq(file_name, 1, last_dot_index - 1), " ", "_"),
                    ".", "_") \o "_schema_xsd"
       ELSE Replace(Replace(file_name, " ", "_"), ".", "_")

\* The namespace table of a document, from its ordered <<key, prefix>> list.
NamespaceDictOf(doc) ==
    [k \in {p[1] : p \in Range(doc.namespaces)} |->
        (CHOOSE p \in Range(doc.namespaces) : p[1] = k)[2]]

\* The loop over the namespaces of update_TABLE_COLUMNS_with_xsd_file.
RECURSIVE WalkNamespaces(_, _, _, _, _)
WalkNamespaces(g, doc, keys, failOnBadType, as_is) ==
    IF keys = <<>> \/ Raised(g) THEN g
    ELSE
    Bind(build_user_types(g, Head(keys), doc.root),
         LAMBDA g1 :
    IF Raised(g1) THEN g1
    ELSE
    Bind(look4element(g1, doc.root, Head(keys), doc.root,
                      replace_characters(doc.file), 0, failOnBadType, ~as_is, 0),
         LAMBDA rez :
    IF Raised(rez.g) THEN rez.g
    ELSE WalkNamespaces(rez.g, doc, Tail(keys), failOnBadType, as_is)))

\* update_TABLE_COLUMNS_with_xsd_file on the globals g: the relationship
\* dictionary starts empty, the namespace table is replaced, the other
\* globals are the ones the previous documents left.
update_TABLE_COLUMNS_with_xsd_file(g, doc, failOnBadType, as_is) ==
    WalkNamespaces([g EXCEPT !.dict_relationships = EmptyDict,
                             !.NAMESPACE_DICT = NamespaceDictOf(doc)],
                   doc, [i \in DOMAIN doc.namespaces |-> doc.namespaces[i][1]],
                   failOnBadType, as_is)

(***************************************************************************)
(* Schema documents                                                        *)
(***************************************************************************)
\* Namespace tables as extract_namespaces builds them: "{uri}" -> "prefix:".
XS == "{xs}"
DS == "{ds}"

Node(tag, name, type, ref, minOccurs, maxOccurs, nillable, base, kids) ==
    [tag |-> tag, name |-> name, type |-> type, ref |-> ref,
     minOccurs |-> minOccurs, maxOccurs |-> maxOccurs, nillable |-> nillable,
     base |-> base, kids |-> kids]

XsElement(name, type, minOccurs, maxOccurs) ==
    Node(XS \o "element", name, type, None, minOccurs, maxOccurs, None, None, <<>>)

XsRef(ref, minOccurs, maxOccurs) ==
    Node(XS \o "element", None, None, ref, minOccurs, maxOccurs, None, None, <<>>)

XsComplexType(name, kids) ==
    Node(XS \o "complexType", name, None, None, None, None, None, None, kids)

XsSequence(kids) ==
    Node(XS \o "sequence", None, None, None, None, None, None, None, kids)

XsChoice(kids) ==
    Node(XS \o "choice", None, None, None, None, None, None, None, kids)

XsSimpleType(name, base) ==
    Node(XS \o "simpleType", name, None, None, None, None, None, None,
         << Node(XS \o "restriction", None, None, None, None, None, None, base, <<>>) >>)

XsSchema(kids) ==
    Node(XS \o "schema", None, None, None, None, None, None, None, kids)

Document(file, kids) ==
    [file |-> file, namespaces |-> << <<XS, "xs:">> >>, root |-> XsSchema(kids)]

\* The types the middle element of PersonDoc takes: a built-in scalar, an
\* unknown name, an unsupported built-in and a declared complex type.
ElementTypes == {"xs:string", "xs:foo", "xs:QName", "Addr"}

\* <<minOccurs, maxOccurs>> of that element.
Occurrences == { <<None, None>>, <<"0", None>>, <<"0", "unbounded">>, <<None, "2">> }

\* Addr(Street) and Person(First, X, Last), X of the given type and occurrence.
PersonDoc(type, occurs) ==
    Document("p.xsd",
        << XsComplexType("Addr",
               << XsSequence(<< XsElement("Street", "xs:string", None, None) >>) >>),
           XsComplexType("Person",
               << XsSequence(<< XsElement("First", "xs:string", None, None),
                                XsElement("X", type, occurs[1], occurs[2]),
                                XsElement("Last", "xs:int", "0", None) >>) >>) >>)

\* Pay with a choice between two scalars.
ChoiceDoc ==
    Document("c.xsd",
        << XsComplexType("Pay",
               << XsChoice(<< XsElement("A", "xs:string", None, None),
                              XsElement("B", "xs:int", None, None) >>) >>) >>)

\* X and Y referencing each other by ref.
MutualDoc ==
    Document("m.xsd",
        << XsComplexType("X", << XsSequence(<< XsRef("Y", None, None) >>) >>),
           XsComplexType("Y", << XsSequence(<< XsRef("X", "0", None) >>) >>) >>)

\* A restriction-based simple type used by an element.
SimpleTypeDoc ==
    Document("s.xsd",
        << XsSimpleType("Code", "xs:string"),
           XsComplexType("Item",
               << XsSequence(<< XsElement("code", "Code", None, None),
                                XsElement("qty", "xs:int", None, None) >>) >>) >>)

\* The complex types of a document of references, in document order.
GraphTypes == <<"X", "Y", "Z">>

\* The <element ref=.../> children of type t: one for every pair <<t, r>> of refs.
RefsOf(t, refs) ==
    LET Referenced(r) == <<t, r>> \in refs
        rs == SelectSeq(GraphTypes, Referenced)
    IN [i \in DOMAIN rs |-> XsRef(rs[i], None, None)]

\* X, Y and Z, each a sequence of references to the others or to itself.
GraphDoc(refs) ==
    Document("g.xsd",
        [i \in DOMAIN GraphTypes |->
            XsComplexType(GraphTypes[i], << XsSequence(RefsOf(GraphTypes[i], refs)) >>)])

\* Item(sku) and Order(no, a reference to Item of the given occurrence).
OrderDoc(occurs) ==
    Document("o.xsd",
        << XsComplexType("Item",
               << XsSequence(<< XsElement("sku", "xs:string", None, None) >>) >>),
           XsComplexType("Order",
               << XsSequence(<< XsElement("no", "xs:int", None, None),
                                XsRef("Item", occurs[1], occurs[2]) >>) >>) >>)

\* The names the second leaf of LeafDoc takes: the name of the document's
\* other complex type, and a name nothing else in the document has.
LeafNames == {"Addr", "Zip"}

\* Addr(Street) and Person(FirstName, a string leaf of the given name).
LeafDoc(name) ==
    Document("l.xsd",
        << XsComplexType("Addr",
               << XsSequence(<< XsElement("Street", "xs:string", None, None) >>) >>),
           XsComplexType("Person",
               << XsSequence(<< XsElement("FirstName", "xs:string", None, None),
                                XsElement(name, "xs:string", None, None) >>) >>) >>)

\* Item(sku) and the element Order with an anonymous complex type: a
\* reference to many Items, then a leaf of the given type.
InlineOrderDoc(type) ==
    Document("n.xsd",
        << Node(XS \o "element", "Order", None, None, None, None, None, None,
                << XsComplexType(None,
                       << XsSequence(<< XsRef("Item", None, "unbounded"),
                                        XsElement("note", type, None, None) >>) >>) >>),
           XsComplexType("Item",
               << XsSequence(<< XsElement("sku", "xs:string", None, None) >>) >>) >>)

\* The lists of n members of S.
RECURSIVE ListsOf(_, _)
ListsOf(S, n) ==
    IF n = 0 THEN {<<>>}
    ELSE {Append(l, d) : l \in ListsOf(S, n - 1), d \in S}

\* The unnamed groups nested in the type of NestedDoc, and how deep.
GroupKinds == {"sequence", "choice", "complexType"}

MaxDepth == 3

\* The leaves inside the groups named by kinds, the outermost group first.
RECURSIVE Wrap(_, _)
Wrap(kinds, leaves) ==
    IF kinds = <<>> THEN leaves
    ELSE << Node(XS \o Head(kinds), None, None, None, None, None, None, None,
                 Wrap(Tail(kinds), leaves)) >>

\* Pay, whose leaves A (required) and B (optional) lie inside unnamed groups.
NestedDoc(kinds) ==
    Document("k.xsd",
        << XsComplexType("Pay",
               Wrap(kinds, << XsElement("A", "xs:string", None, None),
                              XsElement("B", "xs:int", "0", None) >>)) >>)

NestedDocs == {NestedDoc(kinds) : kinds \in UNION {ListsOf(GroupKinds, n) : n \in 0..MaxDepth}}

\* How the two choices of TwoChoiceDoc lie in the type: side by side in one
\* sequence, the second inside the first, or each in a sequence of its own.
ChoiceShapes == {"siblings", "nested", "sequences"}

\* Pay with the choice that holds A and the choice that holds B.
TwoChoiceDoc(shape) ==
    LET a == XsElement("A", "xs:string", None, None)
        b == XsElement("B", "xs:int", None, None)
    IN Document("t.xsd",
           << XsComplexType("Pay",
                  CASE shape = "siblings" ->
                           << XsSequence(<< XsChoice(<< a >>), XsChoice(<< b >>) >>) >>
                    [] shape = "nested" ->
                           << XsChoice(<< a, XsChoice(<< b >>) >>) >>
                    [] shape = "sequences" ->
                           << XsSequence(<< XsSequence(<< XsChoice(<< a >>) >>),
                                            XsSequence(<< XsChoice(<< b >>) >>) >>) >>) >>)

\* The attributes of the element X of NillableDoc.
NillableTypes == {"xs:string", "Addr"}
MinOccursValues == {None, "0", "1"}
MaxOccursValues == {None, "unbounded"}
NillableValues == {None, "true", "True", "false"}

\* Addr(Street) and Person(X), X of the given type, occurrence and nillable.
NillableDoc(type, minOccurs, maxOccurs, nillable) ==
    Document("b.xsd",
        << XsComplexType("Addr",
               << XsSequence(<< XsElement("Street", "xs:string", None, None) >>) >>),
           XsComplexType("Person",
               << XsSequence(<< Node(XS \o "element", "X", type, None, minOccurs,
                                     maxOccurs, nillable, None, <<>>) >>) >>) >>)

NillableDocs ==
    {NillableDoc(t, mn, mx, nl) : t \in NillableTypes, mn \in MinOccursValues,
                                  mx \in MaxOccursValues, nl \in NillableValues}

\* The restriction bases of the simple type Code of DerivedTypeDoc: another
\* user simple type, an unknown name, an unsupported built-in, a supported one.
RestrictionBases == {"Base", "xs:foo", "xs:QName", "xs:int"}

\* Simple types Code (restriction of the given base) and Base (restriction
\* of xs:string), and Item(code: Code, qty).
DerivedTypeDoc(base) ==
    Document("u.xsd",
        << XsSimpleType("Code", base),
           XsSimpleType("Base", "xs:string"),
           XsComplexType("Item",
               << XsSequence(<< XsElement("code", "Code", None, None),
                                XsElement("qty", "xs:int", None, None) >>) >>) >>)

\* Addr(Street) and Person(home, work), both unbounded elements of type
\* Addr: home with minOccurs 0, work with the given minOccurs.
TwoManyDoc(minOccurs) ==
    Document("h.xsd",
        << XsComplexType("Addr",
               << XsSequence(<< XsElement("Street", "xs:string", None, None) >>) >>),
           XsComplexType("Person",
               << XsSequence(<< XsElement("home", "Addr", "0", "unbounded"),
                                XsElement("work", "Addr", minOccurs, "unbounded") >>) >>) >>)

Docs ==
    {PersonDoc(t, o) : t \in ElementTypes, o \in Occurrences}
    \cup {TwoManyDoc(mn) : mn \in {None, "0"}}
    \cup {DerivedTypeDoc(b) : b \in RestrictionBases}
    \cup NillableDocs
    \cup NestedDocs
    \cup {TwoChoiceDoc(shape) : shape \in ChoiceShapes}
    \cup {OrderDoc(o) : o \in Occurrences}
    \cup {LeafDoc(n) : n \in LeafNames}
    \cup {InlineOrderDoc(t) : t \in {"xs:string", "xs:foo"}}
    \cup {ChoiceDoc, MutualDoc, SimpleTypeDoc}

(***************************************************************************)
(* The normalizer on its own: every raw name up to MaxNameLen characters   *)
(* of NameAlphabet, in every namespace context of NamespaceContexts.       *)
(***************************************************************************)
MaxNameLen == 3

NameAlphabet == {"a", "x", ":", "-", ".", " ", "\t"}

RECURSIVE NamesUpTo(_)
NamesUpTo(n) ==
    IF n = 0 THEN {""}
    ELSE LET shorter == NamesUpTo(n - 1)
         IN shorter \cup {s \o c : s \in shorter, c \in NameAlphabet}

\* The namespace tables the normalizer is tried under: one namespace, and two.
NamespaceContexts ==
    { [k \in {XS} |-> "x:"],
      [k \in {XS, DS} |-> IF k = XS THEN "x:" ELSE "d:"] }

\* The module-level globals as the interpreter leaves them after import, and
\* nothing processed yet.
AccumulatorsEmpty ==
    /\ USER_TYPES = EmptyDict
    /\ HASH_TABLE_TABLES_GENERATED = {}
    /\ TABLE_COLUMNS = EmptyDict
    /\ TABLE_COLUMNS_keys = <<>>
    /\ dict_relationships = EmptyDict
    /\ error = "none"
    /\ files_done = 0
    /\ ops_done = 0
    /\ last_op = [op |-> "none"]

\* generate_sql_statements_in_topological_order has not run.
GraphIdle ==
    /\ graph = [nodes |-> {}, edges |-> {}]
    /\ initial_graph = [nodes |-> {}, edges |-> {}]
    /\ diagnostics = <<>>
    /\ drop_order = <<>>
    /\ create_order = <<>>
    /\ sql_script = ""
    /\ arr_create_tables = <<>>
    /\ list_drop_table_sentences = <<>>
    /\ list_create_table_sentences = <<>>

\* look4element has not been called.
DepthIdle ==
    /\ recursion_level = 0
    /\ frames = 0
    /\ entered = None

\* sql_normalize is not being exercised on its own.
NormIdle ==
    /\ norm_raw = None
    /\ norm_ns = None
    /\ norm_once = None
    /\ norm_twice = None

InitNorm ==
    /\ NAMESPACE_DICT \in NamespaceContexts
    /\ norm_raw \in NamesUpTo(MaxNameLen) \cup {None}
    /\ norm_ns \in DOMAIN NAMESPACE_DICT \cup {None, " "}
    /\ norm_once = None
    /\ norm_twice = None
    /\ pc = "raw"
    /\ args = [failOnBadType |-> FALSE, as_is |-> FALSE]
    /\ xsd_files = <<>>
    /\ hash_seed = 0
    /\ AccumulatorsEmpty
    /\ GraphIdle
    /\ DepthIdle

\* normalize(x)
NormalizeOnce ==
    /\ pc = "raw"
    /\ norm_once' = sql_normalize(norm_raw, norm_ns)
    /\ pc' = "once"
    /\ UNCHANGED <<NAMESPACE_DICT, norm_raw, norm_ns, norm_twice>>
    /\ UNCHANGED walkVars
    /\ UNCHANGED depthVars
    /\ UNCHANGED graphVars

\* normalize(normalize(x))
NormalizeTwice ==
    /\ pc = "once"
    /\ norm_twice' = sql_normalize(norm_once, norm_ns)
    /\ pc' = "twice"
    /\ UNCHANGED <<NAMESPACE_DICT, norm_raw, norm_ns, norm_once>>
    /\ UNCHANGED walkVars
    /\ UNCHANGED depthVars
    /\ UNCHANGED graphVars

NextNorm == NormalizeOnce \/ NormalizeTwice

SpecNorm == InitNorm /\ [][NextNorm]_vars

Globals ==
    [NAMESPACE_DICT |-> NAMESPACE_DICT,
     USER_TYPES |-> USER_TYPES,
     HASH_TABLE_TABLES_GENERATED |-> HASH_TABLE_TABLES_GENERATED,
     TABLE_COLUMNS |-> TABLE_COLUMNS,
     TABLE_COLUMNS_keys |-> TABLE_COLUMNS_keys,
     dict_relationships |-> dict_relationships,
     raised |-> "none"]

\* The globals after an operation left them as g.
SetGlobals(g) ==
    /\ NAMESPACE_DICT' = g.NAMESPACE_DICT
    /\ USER_TYPES' = g.USER_TYPES
    /\ HASH_TABLE_TABLES_GENERATED' = g.HASH_TABLE_TABLES_GENERATED
    /\ TABLE_COLUMNS' = g.TABLE_COLUMNS
    /\ TABLE_COLUMNS_keys' = g.TABLE_COLUMNS_keys
    /\ error' = g.raised

MaxFiles == 2

\* The documents given together with other documents on one command line.
MultiDocs ==
    {PersonDoc("xs:string", <<None, None>>), PersonDoc("Addr", <<"0", "unbounded">>),
     PersonDoc("Addr", <<None, None>>), MutualDoc}

\* The command lines: one document of Docs, or 2..MaxFiles documents of MultiDocs.
FileLists ==
    {<<d>> : d \in Docs} \cup UNION {ListsOf(MultiDocs, n) : n \in 2..MaxFiles}

InitWalk ==
    /\ NAMESPACE_DICT = EmptyDict
    /\ args \in [failOnBadType : BOOLEAN, as_is : BOOLEAN]
    /\ xsd_files \in FileLists
    /\ hash_seed = 0
    /\ pc = "walk"
    /\ AccumulatorsEmpty
    /\ NormIdle
    /\ GraphIdle
    /\ DepthIdle

\* One iteration of process_xsd_files' loop over xsd_files.  An exception
\* leaves the globals as they were when it was raised and ends the run.
ProcessFile ==
    /\ pc = "walk"
    /\ files_done < Len(xsd_files)
    /\ \E g \in {update_TABLE_COLUMNS_with_xsd_file(
                      Globals, xsd_files[files_done + 1],
                      args.failOnBadType, args.as_is)} :
          /\ pc' = IF Raised(g) THEN "failed" ELSE "walk"
          /\ SetGlobals(g)
          /\ dict_relationships' =
                 IF Raised(g) THEN dict_relationships ELSE g.dict_relationships
    /\ last_op' = [op |-> "walk", doc |-> xsd_files[files_done + 1],
                   before |-> TABLE_COLUMNS]
    /\ files_done' = files_done + 1
    /\ UNCHANGED <<args, xsd_files, hash_seed, ops_done>>
    /\ UNCHANGED normVars
    /\ UNCHANGED depthVars
    /\ UNCHANGED graphVars

NextWalk == ProcessFile

SpecWalk == InitWalk /\ [][NextWalk]_vars

\* The documents whose Person type has an element of a type that is neither
\* built in, nor user declared, nor a declared complex type.
UnresolvedDocs == {PersonDoc("xs:foo", o) : o \in Occurrences}

\* The documents whose Person type has an element of an unsupported built-in.
UnsupportedDocs == {PersonDoc("xs:QName", o) : o \in Occurrences}

\* C8 as stated: in lenient mode the walk of a document with an unresolved
\* element does not raise and loses only that element's column: the column
\* of First, accumulated before it for Person, is committed to Person.
C8_EarlierColumnsCommitted ==
    (/\ last_op.op = "walk"
     /\ ~args.failOnBadType
     /\ last_op.doc \in UnresolvedDocs)
    => /\ error = "none"
       /\ "Person" \in DOMAIN TABLE_COLUMNS
       /\ \E col \in TABLE_COLUMNS["Person"] : StartsWith(col, "First ")

\* C9 as stated: in strict mode InvalidXMLType is raised only by a document
\* that has an unresolved element.
C9_InvalidXMLTypeOnlyWhenUnresolved ==
    (/\ last_op.op = "walk"
     /\ args.failOnBadType
     /\ error = "InvalidXMLType")
    => last_op.doc \in UnresolvedDocs

\* C10 as stated: an element of an unsupported built-in type has the outcome
\* of an element of an unknown type: omitted in lenient mode, InvalidXMLType
\* in strict mode, and no other error.
C10_UnsupportedIsAbsent ==
    (/\ last_op.op = "walk"
     /\ last_op.doc \in UnsupportedDocs)
    => error = (IF args.failOnBadType THEN "InvalidXMLType" ELSE "none")

(***************************************************************************)
(* The accumulator operations on their own: create_table_in_sql_sentence   *)
(* and create_fk_field called with inputs of the kinds the walker passes,  *)
(* before, between and after the walk of a document.                       *)
(***************************************************************************)
MaxOps == 2

\* The tables the operations commit to: the two complex types of PersonDoc.
AccumTables == {"Person", "Addr"}

\* The column lists the walker holds when it commits a table.
AccumCols == {None, "qty int NOT NULL", "sku nvarchar(max) NULL, qty int NOT NULL"}

\* The elements create_fk_field resolves: a ref to Addr of cardinality one,
\* "many" by "*" and "many" by an integer above 1, and a named element of type
\* Addr.
AccumElements ==
    {XsRef("Addr", None, None), XsRef("Addr", "0", "unbounded"),
     XsRef("Addr", None, "2"), XsElement("home", "Addr", "1", "3")}

\* The column list in hand and the choice counter at a resolution: the first
\* element of a sequence, and a later element of a choice.
AccumFkContexts == {<<"", 0>>, <<"qty int NOT NULL", 1>>}

AccumDocs == {PersonDoc("Addr", <<"0", "unbounded">>)}

InitAccum ==
    /\ NAMESPACE_DICT = [k \in {XS} |-> "xs:"]
    /\ args = [failOnBadType |-> FALSE, as_is |-> FALSE]
    /\ xsd_files \in {<<>>} \cup {<<d>> : d \in AccumDocs}
    /\ hash_seed = 0
    /\ pc = "walk"
    /\ AccumulatorsEmpty
    /\ NormIdle
    /\ GraphIdle
    /\ DepthIdle

\* create_table_in_sql_sentence(cols, table_name, ns)
CommitTable(cols, table_name) ==
    /\ pc = "walk"
    /\ ops_done < MaxOps
    /\ \E g \in {create_table_in_sql_sentence(Globals, cols, table_name, XS)} :
          /\ SetGlobals(g)
          /\ pc' = IF Raised(g) THEN "failed" ELSE "walk"
    /\ last_op' = [op |-> "commit", cols |-> cols, table_name |-> table_name,
                   before |-> TABLE_COLUMNS,
                   repeat |-> /\ last_op.op = "commit"
                              /\ last_op.cols = cols
                              /\ last_op.table_name = table_name]
    /\ ops_done' = ops_done + 1
    /\ UNCHANGED <<dict_relationships, files_done, args, xsd_files, hash_seed>>
    /\ UNCHANGED normVars
    /\ UNCHANGED depthVars
    /\ UNCHANGED graphVars

\* cols = create_fk_field(el, cols, parent, el.get('name') or el.get('ref'),
\*                        thisType, counter_choice, dict_relationships, ns)
ResolveFk(el, cols, parent, counter_choice) ==
    /\ pc = "walk"
    /\ ops_done < MaxOps
    /\ LET field_fk_name == IF Truthy(el.name) THEN el.name ELSE el.ref
           thisType == IF Truthy(el.type) THEN el.type ELSE el.ref
       IN \E r \in {create_fk_field(Globals, el, cols, parent, field_fk_name,
                                    thisType, counter_choice, XS)} :
          /\ SetGlobals(r.g)
          /\ dict_relationships' = r.g.dict_relationships
          /\ pc' = IF Raised(r.g) THEN "failed" ELSE "walk"
          /\ last_op' = [op |-> "fk", el |-> el, cols |-> cols, parent |-> parent,
                         field_fk_name |-> field_fk_name,
                         table_reference_name |-> thisType,
                         before |-> TABLE_COLUMNS,
                         before_relationships |-> dict_relationships,
                         returned |-> r.cols]
    /\ ops_done' = ops_done + 1
    /\ UNCHANGED <<files_done, args, xsd_files, hash_seed>>
    /\ UNCHANGED normVars
    /\ UNCHANGED depthVars
    /\ UNCHANGED graphVars

\* The column lists an operation is given: AccumCols, and what the previous
\* create_fk_field returned (look4element commits it to the parent).
ColsInHand ==
    AccumCols \cup (IF last_op.op = "fk" THEN {last_op.returned} ELSE {})

NextAccum ==
    \/ ProcessFile
    \/ \E cols \in ColsInHand, table_name \in AccumTables :
          CommitTable(cols, table_name)
    \/ \E el \in AccumElements, context \in AccumFkContexts, parent \in AccumTables :
          ResolveFk(el, context[1], parent, context[2])

SpecAccum == InitAccum /\ [][NextAccum]_vars


\* The upper bound of the element's cardinality is "*" or an integer above 1.
UpperBoundIsMany(el) ==
    el.maxOccurs \in {"unbounded"} \cup {IntToStr(n) : n \in 2..9}

\* The last operation was create_fk_field on an element of that cardinality.
ManyResolution ==
    /\ last_op.op = "fk"
    /\ error = "none"
    /\ UpperBoundIsMany(last_op.el)

\* C4: after a foreign-key resolution whose cardinality upper bound is "*" or
\* an integer above 1, the referenced table holds the foreign-key column
\* <parent>Id_0 and the CONSTRAINT that points back to the parent; the column
\* list returned for the parent is the one passed in (the parent's primary key
\* when it was blank), without foreign key, and the table of a parent other
\* than the referenced table is as it was (a self-reference commits to the one
\* table, which is both); the record under the parent's one-cardinality key is
\* gone and the parent's key holds exactly one record, the referenced table.
C4_ManyRecordedOnReferencedTable ==
    ManyResolution =>
        LET P == last_op.parent
            R == last_op.table_reference_name
            F == last_op.field_fk_name
            blank == last_op.cols = None \/ LStrip(last_op.cols) = ""
            one_key == P \o ";FK_" \o P \o "_" \o F \o "Id"
            many_key == P \o ";FK_" \o P \o "_" \o F
        IN /\ R \in DOMAIN TABLE_COLUMNS
           /\ \E col \in TABLE_COLUMNS[R] : StartsWith(col, P \o "Id_0 bigint ")
           /\ ("CONSTRAINT FK_" \o P \o "_" \o F \o " FOREIGN KEY (" \o P
               \o "Id_0) REFERENCES " \o P \o "(" \o P \o "Id)") \in TABLE_COLUMNS[R]
           /\ last_op.returned = IF blank THEN P \o "Id bigint PRIMARY KEY NOT NULL"
                                 ELSE last_op.cols
           /\ P # R => /\ DOMAIN TABLE_COLUMNS \ {R} = DOMAIN last_op.before \ {R}
                       /\ P \in DOMAIN TABLE_COLUMNS
                              => TABLE_COLUMNS[P] = last_op.before[P]
           /\ one_key \notin DOMAIN dict_relationships
           /\ many_key \in DOMAIN dict_relationships
           /\ Len(dict_relationships[many_key]) = 1
           /\ dict_relationships[many_key][1][1] = R

\* A resolution of cardinality 1..2 that replaced the record an earlier
\* resolution of cardinality one had stored for the same parent and field.
C4_Witness ==
    /\ ManyResolution
    /\ last_op.el.maxOccurs = "2"
    /\ last_op.parent = "Person"
    /\ "Person;FK_Person_AddrId" \in DOMAIN last_op.before_relationships
    /\ "Person;FK_Person_Addr" \in DOMAIN dict_relationships

\* C5: when create_table_in_sql_sentence(c, T) has just been called for the
\* second time in a row with the same c and T, TABLE_COLUMNS[T] is what the
\* first call left (and so is every other table).
C5_CommitTwiceIsCommitOnce ==
    (last_op.op = "commit" /\ last_op.repeat /\ error = "none")
    => /\ last_op.table_name \in DOMAIN last_op.before
       /\ TABLE_COLUMNS = last_op.before

\* A second commit in a row of two columns to Person.
C5_Witness ==
    /\ last_op.op = "commit" /\ last_op.repeat /\ error = "none"
    /\ last_op.table_name = "Person"
    /\ last_op.cols = "sku nvarchar(max) NULL, qty int NOT NULL"
    /\ "sku nvarchar(max) NULL" \in TABLE_COLUMNS["Person"]

\* C6: in every step of a run (the walk of a document, a commit, a foreign-key
\* resolution) every registered table stays registered and keeps every column
\* definition it holds, the set of generated tables only grows, and no table
\* is registered twice (the column definitions of a table are a set).
C6_ColumnsOnlyGrow ==
    [][/\ \A T \in DOMAIN TABLE_COLUMNS :
             /\ T \in DOMAIN TABLE_COLUMNS'
             /\ TABLE_COLUMNS[T] \subseteq TABLE_COLUMNS'[T]
        /\ HASH_TABLE_TABLES_GENERATED \subseteq HASH_TABLE_TABLES_GENERATED'
        /\ Len(TABLE_COLUMNS_keys') = Cardinality(Range(TABLE_COLUMNS_keys'))
        /\ Range(TABLE_COLUMNS_keys') = DOMAIN TABLE_COLUMNS']_vars

\* A commit to a table that held other columns: it has them and the new one.
C6_Witness ==
    /\ last_op.op = "commit" /\ error = "none"
    /\ last_op.table_name = "Person" /\ last_op.cols = "qty int NOT NULL"
    /\ "Person" \in DOMAIN last_op.before
    /\ "sku nvarchar(max) NULL" \in last_op.before["Person"]
    /\ "qty int NOT NULL" \in TABLE_COLUMNS["Person"]
    /\ "sku nvarchar(max) NULL" \in TABLE_COLUMNS["Person"]


(***************************************************************************)
(* SQL text of the accumulated tables                                      *)
(***************************************************************************)
\* The order in which "for col in <set>" visits a set of strings: Python
\* fixes it by the string hash seed of the run, so it is one order per seed
\* (the same set is visited in the same order all through a run).
RECURSIVE OrderOfSeed(_, _)
OrderOfSeed(S, seed) ==
    IF S = {} THEN <<>>
    ELSE LET x == CHOOSE y \in S : TRUE
             rest == OrderOfSeed(S \ {x}, seed \div 2)
         IN IF seed % 2 = 0 THEN <<x>> \o rest ELSE rest \o <<x>>

\* The last element of list that satisfies "sub in element", None without one.
LastContaining(list, sub) ==
    LET hits == {i \in DOMAIN list : Contains(list[i], sub)}
    IN IF hits = {} THEN None ELSE list[Max(hits)]

\* re.sub(r"CREATE TABLE {table_name} \(.*?\);", "", sql): every stretch from
\* "CREATE TABLE <table_name> (" to the nearest ");" after it is removed.
RECURSIVE RemoveTableDefinition(_, _)
RemoveTableDefinition(sql, table_name) ==
    LET opening == "CREATE TABLE " \o table_name \o " ("
        start == Find(sql, opening)
        rest == SubSeq(sql, start + Len(opening), Len(sql))
        close == Find(rest, ");")
    IN IF start = 0 \/ close = 0 THEN sql
       ELSE SubSeq(sql, 1, start - 1)
            \o RemoveTableDefinition(SubSeq(rest, close + 2, Len(rest)), table_name)

\* The variant that lists the columns in the order the set gives them.
update_table_creation_in_sql_unordered(sql, table_name, table_columns, seed) ==
    RemoveTableDefinition(sql, table_name)
    \o "CREATE TABLE " \o table_name \o " ("
    \o Join(OrderOfSeed(table_columns[table_name], seed), ", ") \o ");" \o "\n"

\* Returns the updated sql, RAISED_TypeError when the table has no primary key
\* (', '.join of a list that holds None).
update_table_creation_in_sql(sql, table_name, table_columns, seed) ==
    LET cols == OrderOfSeed(table_columns[table_name], seed)
        IsPk(col) == Contains(col, "PRIMARY KEY")
        IsFk(col) == ~Contains(col, "PRIMARY KEY") /\ Contains(col, "FOREIGN KEY")
        IsOther(col) == ~Contains(col, "PRIMARY KEY") /\ ~Contains(col, "FOREIGN KEY")
        pk == LastContaining(cols, "PRIMARY KEY")
        foreign_keys == SelectSeq(cols, IsFk)
        other_columns == SelectSeq(cols, IsOther)
        ordered_cols == <<pk>> \o other_columns \o foreign_keys
        combined_cols == Join(ordered_cols, ", ")
        new_table_sql == "CREATE TABLE " \o table_name \o " (" \o combined_cols \o ");"
    IN IF pk = None THEN RAISED_TypeError
       ELSE RemoveTableDefinition(sql, table_name) \o new_table_sql \o "\n"

\* The loop of create_sql_from_tables_columns_dictionary over the tables left
\* in keys.
RECURSIVE UpdateTables(_, _, _, _)
UpdateTables(sql, keys, table_columns, seed) ==
    IF keys = <<>> \/ sql = RAISED_TypeError THEN sql
    ELSE UpdateTables(update_table_creation_in_sql(sql, Head(keys), table_columns, seed),
                      Tail(keys), table_columns, seed)

create_sql_from_tables_columns_dictionary(table_columns, keys, seed) ==
    UpdateTables("", keys, table_columns, seed)

\* [element.strip() for element in sql.replace('\n\n', '').split(";")
\*  if element.strip()]
SplitCreateTables(sql) ==
    LET pieces == Split(Replace(sql, "\n\n", ""), ";")
        NotBlank(element) == Strip(element) # ""
        kept == SelectSeq(pieces, NotBlank)
    IN [i \in DOMAIN kept |-> Strip(kept[i])]


(***************************************************************************)
(* Dependency graph resolver                                               *)
(***************************************************************************)
\* The longest prefix of s without whitespace: what (\S+) matches at its start.
RECURSIVE NonSpaceRun(_)
NonSpaceRun(s) ==
    IF s = "" THEN ""
    ELSE IF Head(s) \in Whitespace THEN ""
    ELSE Head(s) \o NonSpaceRun(Tail(s))

\* re.search(rf"{pref}(\S+)", instruction.lstrip()): the leftmost pref that a
\* character other than whitespace follows, and the run of such characters
\* after it; '' without a match.
get_table_name(instruction, pref) ==
    LET text == LStrip(instruction)
        matches == {i \in 1..(Len(text) - Len(pref)) :
                       /\ SubSeq(text, i, i + Len(pref) - 1) = pref
                       /\ SubSeq(text, i + Len(pref), i + Len(pref)) \notin Whitespace}
    IN IF matches = {} THEN ""
       ELSE NonSpaceRun(SubSeq(text, Min(matches) + Len(pref), Len(text)))

\* The loop of analize_instruction over the texts that follow a REFERENCES.
RECURSIVE ReferencedIn(_)
ReferencedIn(items) ==
    IF items = <<>> THEN <<>>
    ELSE LET new_item == LStrip(Head(items))
             index == Find(new_item, "(")
         IN (IF index # 0 THEN <<SubSeq(new_item, 1, index - 1)>> ELSE <<>>)
            \o ReferencedIn(Tail(items))

\* Returns <<table_name, referenced_tables>>.
analize_instruction(instruction) ==
    LET table_name == get_table_name(instruction, "CREATE TABLE ")
        array_foreign_keys == Split(Replace(instruction, "\n", ""), "REFERENCES")
        referenced_tables == ReferencedIn(Tail(array_foreign_keys))
    IN IF Strip(table_name) = "" THEN <<"", <<>> >>
       ELSE <<table_name,
              IF Len(referenced_tables) = 0 THEN <<"">> ELSE referenced_tables>>

\* nx.DiGraph(): node set and edge set (an edge adds its two ends as nodes).
EmptyGraph == [nodes |-> {}, edges |-> {}]

add_node(G, n) == [G EXCEPT !.nodes = @ \cup {n}]

add_edge(G, u, v) == [nodes |-> G.nodes \cup {u, v}, edges |-> G.edges \cup {<<u, v>>}]

\* The variant that removes the edge and the edge back.
remove_edge_and_reverse(G, e) == [G EXCEPT !.edges = @ \ {e, <<e[2], e[1]>>}]

remove_edge(G, e) == [G EXCEPT !.edges = @ \ {e}]

RECURSIVE AddEdges(_, _, _)
AddEdges(G, table_name, referenced_tables) ==
    IF referenced_tables = <<>> THEN G
    ELSE AddEdges(add_edge(G, table_name, Head(referenced_tables)),
                  table_name, Tail(referenced_tables))

\* The loop of create_graph over the instructions left.
RECURSIVE AddInstructions(_, _)
AddInstructions(G, instructions) ==
    IF instructions = <<>> THEN G
    ELSE LET parsed == analize_instruction(Head(instructions))
         IN AddInstructions(
                IF parsed[1] = "" THEN G
                ELSE AddEdges(add_node(G, parsed[1]), parsed[1], parsed[2]),
                Tail(instructions))

create_graph(instructions) == AddInstructions(EmptyGraph, instructions)


\* The nodes one edge away from a node of S.
Successors(G, S) == {e[2] : e \in {d \in G.edges : d[1] \in S}}

RECURSIVE Descend(_, _)
Descend(G, S) ==
    LET T == S \cup Successors(G, S)
    IN IF T = S THEN S ELSE Descend(G, T)

\* The nodes a path of one edge or more leads to from n.
Reachable(G, n) == Descend(G, Successors(G, {n}))

\* The variant of the cycle search that does not see an edge from a node to
\* itself.
find_cycle_without_self_loops(G) ==
    {e \in G.edges : e[1] # e[2] /\ e[1] \in Reachable(G, e[2])}

\* nx.find_cycle(G)[0]: the search returns the edges of one cycle of G, found
\* by a depth-first traversal, and which cycle and which of its edges comes
\* first depends on the traversal; find_cycle(G) is the set of the edges the
\* result can start with, every edge that lies on a cycle.  It is empty where
\* the search raises NetworkXNoCycle.
find_cycle(G) ==
    {e \in G.edges : e[1] = e[2] \/ e[1] \in Reachable(G, e[2])}

\* nx.is_directed_acyclic_graph(G)
is_directed_acyclic_graph(G) == \A n \in G.nodes : n \notin Reachable(G, n)

\* nx.topological_sort(G) yields one of the orders of the nodes in which every
\* edge goes from an earlier node to a later one: topological_sort(G) is the
\* set of them all.
RECURSIVE TopologicalOrders(_, _)
TopologicalOrders(nodes, edges) ==
    IF nodes = {} THEN {<<>>}
    ELSE UNION {{<<n>> \o rest : rest \in TopologicalOrders(nodes \ {n}, edges)} :
                n \in {m \in nodes : ~\E e \in edges : e[2] = m /\ e[1] \in nodes}}

topological_sort(G) == TopologicalOrders(G.nodes, G.edges)

\* The variant that leaves the list in its order.
NotReversed(list) == list

\* reversed(list)
Reversed(list) == [i \in DOMAIN list |-> list[Len(list) + 1 - i]]

\* f"{edge}" of a tuple of two strings.
TupleRepr(e) == "('" \o e[1] \o "', '" \o e[2] \o "')"

RemovedEdgeDiagnostic(edge_to_remove) ==
    "Removed edge to break cycle: " \o TupleRepr(edge_to_remove)

DropTableStatement(table_name) ==
    "IF EXISTS (SELECT * FROM INFORMATION_SCHEMA.TABLES WHERE TABLE_NAME = '"
    \o table_name \o "') DROP TABLE " \o table_name \o ";"

\* The inner loop of generate_drop_table_statements: one statement for every
\* instruction of the table, the instructions taken last to first.
DropsOf(table_graph, instructions) ==
    LET IsOfTable(create_table) ==
            LET table_name == get_table_name(create_table, "CREATE TABLE ")
            IN table_name # "" /\ table_graph = table_name
        hits == SelectSeq(Reversed(instructions), IsOfTable)
    IN [i \in DOMAIN hits |-> DropTableStatement(table_graph)]

\* The variant that emits the statements of the tables in the order given,
\* each table's statements included.
RECURSIVE generate_drop_table_statements_twice(_, _)
generate_drop_table_statements_twice(instructions, order) ==
    IF order = <<>> THEN <<>>
    ELSE DropsOf(Head(order), instructions \o instructions)
         \o generate_drop_table_statements_twice(instructions, Tail(order))

RECURSIVE generate_drop_table_statements(_, _)
generate_drop_table_statements(instructions, order) ==
    IF order = <<>> THEN <<>>
    ELSE DropsOf(Head(order), instructions)
         \o generate_drop_table_statements(instructions, Tail(order))

\* The inner loop of generate_create_table_statements: the first piece of the
\* script that starts with the table's name, and no other.
CreateOf(table_graph, sql) ==
    LET pieces == Tail(Split(Replace(sql, "\n\n", ""), "CREATE TABLE "))
        IsOfTable(createTable) ==
            LET table_name == get_table_name(createTable, "")
            IN table_name # "" /\ table_graph = table_name
        hits == SelectSeq(pieces, IsOfTable)
    IN IF hits = <<>> THEN <<>> ELSE <<"CREATE TABLE " \o hits[1]>>

RECURSIVE generate_create_table_statements(_, _)
generate_create_table_statements(order, sql) ==
    IF order = <<>> THEN <<>>
    ELSE CreateOf(Head(order), sql)
         \o generate_create_table_statements(Tail(order), sql)


(***************************************************************************)
(* A run on one document of references: the walk, then                     *)
(* generate_sql_statements_in_topological_order step by step.              *)
(***************************************************************************)
MaxRefs == 4

NumHashSeeds == 2

\* Every reference between two of X, Y and Z, a type itself included.
RefPairs == {<<GraphTypes[i], GraphTypes[j]>> : i, j \in DOMAIN GraphTypes}

GraphDocs == {GraphDoc(refs) : refs \in {S \in SUBSET RefPairs : Cardinality(S) <= MaxRefs}}

InitGraph ==
    /\ NAMESPACE_DICT = EmptyDict
    /\ args = [failOnBadType |-> FALSE, as_is |-> FALSE]
    /\ xsd_files \in {<<d>> : d \in GraphDocs}
    /\ hash_seed \in 0..(NumHashSeeds - 1)
    /\ pc = "walk"
    /\ AccumulatorsEmpty
    /\ NormIdle
    /\ GraphIdle
    /\ DepthIdle

\* process_xsd_files after its loop, and generate_sql_statements_in_topological_order
\* up to create_graph.
CreateGraph ==
    /\ pc = "walk"
    /\ files_done = Len(xsd_files)
    /\ IF TABLE_COLUMNS = EmptyDict
       THEN /\ error' = "Exception"
            /\ pc' = "failed"
            /\ UNCHANGED graphVars
       ELSE \E script \in {create_sql_from_tables_columns_dictionary(
                               TABLE_COLUMNS, TABLE_COLUMNS_keys, hash_seed)} :
            IF script = RAISED_TypeError
            THEN /\ error' = "TypeError"
                 /\ pc' = "failed"
                 /\ UNCHANGED graphVars
            ELSE \E instructions \in {SplitCreateTables(script)} :
                 \E G \in {create_graph(instructions)} :
                 /\ sql_script' = script
                 /\ arr_create_tables' = instructions
                 /\ graph' = G
                 /\ initial_graph' = G
                 /\ pc' = "break"
                 /\ UNCHANGED <<error, diagnostics, drop_order, create_order,
                                list_drop_table_sentences,
                                list_create_table_sentences>>
    /\ UNCHANGED <<NAMESPACE_DICT, USER_TYPES, HASH_TABLE_TABLES_GENERATED,
                   TABLE_COLUMNS, TABLE_COLUMNS_keys, dict_relationships,
                   files_done, args, xsd_files, hash_seed, ops_done, last_op>>
    /\ UNCHANGED normVars
    /\ UNCHANGED depthVars

\* One turn of the loop of break_cycles.
BreakCycle ==
    /\ pc = "break"
    /\ \E edge_to_remove \in find_cycle(graph) :
          /\ graph' = remove_edge(graph, edge_to_remove)
          /\ diagnostics' = Append(diagnostics, RemovedEdgeDiagnostic(edge_to_remove))
    /\ UNCHANGED <<NAMESPACE_DICT, pc, initial_graph, drop_order, create_order, sql_script,
                   arr_create_tables, list_drop_table_sentences,
                   list_create_table_sentences>>
    /\ UNCHANGED walkVars
    /\ UNCHANGED normVars
    /\ UNCHANGED depthVars

\* NetworkXNoCycle ends the loop of break_cycles; the acyclicity guard and the
\* two orders.
TopologicalSort ==
    /\ pc = "break"
    /\ find_cycle(graph) = {}
    /\ IF ~is_directed_acyclic_graph(graph)
       THEN /\ error' = "ValueError"
            /\ pc' = "failed"
            /\ UNCHANGED <<drop_order, create_order>>
       ELSE \E order \in topological_sort(graph) :
               /\ drop_order' = order
               /\ create_order' = Reversed(order)
               /\ pc' = "sorted"
               /\ error' = error
    /\ UNCHANGED <<NAMESPACE_DICT, USER_TYPES, HASH_TABLE_TABLES_GENERATED,
                   TABLE_COLUMNS, TABLE_COLUMNS_keys, dict_relationships,
                   files_done, args, xsd_files, hash_seed, ops_done, last_op>>
    /\ UNCHANGED <<graph, initial_graph, diagnostics, sql_script, arr_create_tables,
                   list_drop_table_sentences, list_create_table_sentences>>
    /\ UNCHANGED normVars
    /\ UNCHANGED depthVars

\* The DROP TABLE and the CREATE TABLE statements in the two orders.
GenerateStatements ==
    /\ pc = "sorted"
    /\ list_drop_table_sentences' =
           generate_drop_table_statements(arr_create_tables, drop_order)
    /\ list_create_table_sentences' =
           generate_create_table_statements(create_order, sql_script)
    /\ pc' = "done"
    /\ UNCHANGED <<NAMESPACE_DICT, USER_TYPES, HASH_TABLE_TABLES_GENERATED,
                   TABLE_COLUMNS, TABLE_COLUMNS_keys, dict_relationships, error,
                   files_done, args, xsd_files, hash_seed, ops_done, last_op>>
    /\ UNCHANGED <<graph, initial_graph, diagnostics, sql_script, arr_create_tables,
                   drop_order, create_order>>
    /\ UNCHANGED normVars
    /\ UNCHANGED depthVars

NextGraph ==
    \/ ProcessFile
    \/ CreateGraph
    \/ BreakCycle
    \/ TopologicalSort
    \/ GenerateStatements

\* The program is sequential: in break_cycles and after it, the step it is at
\* is taken.
SpecGraph ==
    InitGraph /\ [][NextGraph]_vars /\ WF_vars(BreakCycle) /\ WF_vars(TopologicalSort)


\* The place of x in a list that holds it once.
PositionIn(list, x) == CHOOSE i \in DOMAIN list : list[i] = x

\* list holds x exactly once.
HoldsOnce(list, x) == Cardinality({i \in DOMAIN list : list[i] = x}) = 1

\* No cycle among the edges: every set of nodes has a node with no edge into
\* the set.
NoCycleAmong(nodes, edges) ==
    \A S \in SUBSET nodes :
        S # {} => \E n \in S : \A m \in S : <<n, m>> \notin edges

\* C1: for every edge A -> B of the graph returned after cycle-breaking, A comes
\* strictly before B in the deletion order and strictly after B in the creation
\* order, and where both are tables of the script the DROP statement of A comes
\* before that of B and the CREATE statement of A after that of B.
C1_EdgesOrderCreationAndDeletion ==
    pc = "done" =>
        \A e \in graph.edges :
            LET A == e[1]
                B == e[2]
                Drop(T) == "IF EXISTS (SELECT * FROM INFORMATION_SCHEMA.TABLES WHERE TABLE_NAME = '"
                           \o T \o "') DROP TABLE " \o T \o ";"
                CreateAt(T) ==
                    CHOOSE i \in DOMAIN list_create_table_sentences :
                        StartsWith(list_create_table_sentences[i],
                                   "CREATE TABLE " \o T \o " (")
            IN /\ A # B
               /\ HoldsOnce(drop_order, A) /\ HoldsOnce(drop_order, B)
               /\ HoldsOnce(create_order, A) /\ HoldsOnce(create_order, B)
               /\ PositionIn(drop_order, A) < PositionIn(drop_order, B)
               /\ PositionIn(create_order, A) > PositionIn(create_order, B)
               /\ (A \in DOMAIN TABLE_COLUMNS /\ B \in DOMAIN TABLE_COLUMNS) =>
                     /\ HoldsOnce(list_drop_table_sentences, Drop(A))
                     /\ HoldsOnce(list_drop_table_sentences, Drop(B))
                     /\ PositionIn(list_drop_table_sentences, Drop(A))
                            < PositionIn(list_drop_table_sentences, Drop(B))
                     /\ \E i \in DOMAIN list_create_table_sentences :
                            StartsWith(list_create_table_sentences[i],
                                       "CREATE TABLE " \o A \o " (")
                     /\ \E i \in DOMAIN list_create_table_sentences :
                            StartsWith(list_create_table_sentences[i],
                                       "CREATE TABLE " \o B \o " (")
                     /\ CreateAt(A) > CreateAt(B)

\* A run that ended with X -> Y and Y -> Z in the graph returned, after the
\* edge Z -> X of the cycle through the three was removed.
C1_Witness ==
    /\ pc = "done"
    /\ {<<"X", "Y">>, <<"Y", "Z">>} \subseteq graph.edges
    /\ <<"Z", "X">> \in initial_graph.edges \ graph.edges

\* C2: break_cycles terminates on every graph, self-loops and overlapping
\* cycles included: a run that enters it goes on to the topological order; the
\* ValueError guard is never triggered; and the graph that is sorted has no
\* cycle, has the nodes of the graph given and none but its edges, one edge less
\* for every turn of the loop.
C2_BreakCyclesTerminatesAcyclic ==
    /\ (pc = "break") ~> (pc = "sorted")
    /\ [](error # "ValueError")
    /\ [](pc \in {"sorted", "done"} =>
            /\ NoCycleAmong(graph.nodes, graph.edges)
            /\ graph.nodes = initial_graph.nodes
            /\ graph.edges \subseteq initial_graph.edges
            /\ Len(diagnostics) + Cardinality(graph.edges)
                   = Cardinality(initial_graph.edges))

\* A run that ended after its graph had the cycles X -> Y -> X and
\* X -> Y -> Z -> X, which share the edge X -> Y, and two turns of the loop
\* were needed: the first removed Y -> X and left the other cycle.
C2_Witness ==
    /\ pc = "done"
    /\ {<<"X", "Y">>, <<"Y", "X">>, <<"Y", "Z">>, <<"Z", "X">>}
           \subseteq initial_graph.edges
    /\ Len(diagnostics) = 2
    /\ diagnostics[1] = "Removed edge to break cycle: ('Y', 'X')"

\* The only cycle of the graph is a -> b -> a: both edges are there, and
\* without either of them the graph has no cycle.
OnlyCycleIsMutualPair(G, a, b) ==
    /\ a # b
    /\ {<<a, b>>, <<b, a>>} \subseteq G.edges
    /\ NoCycleAmong(G.nodes, G.edges \ {<<a, b>>})
    /\ NoCycleAmong(G.nodes, G.edges \ {<<b, a>>})

\* C3: where the only cycle of the graph is the mutual pair a -> b, b -> a,
\* break_cycles removes one of the two edges and no other edge, the graph it
\* returns has no cycle, and one diagnostic is emitted, naming the removed edge.
C3_MutualPairLosesOneEdge ==
    \A a, b \in initial_graph.nodes :
        (pc = "done" /\ OnlyCycleIsMutualPair(initial_graph, a, b)) =>
            /\ NoCycleAmong(graph.nodes, graph.edges)
            /\ \E removed \in {<<a, b>>, <<b, a>>} :
                  /\ graph.edges = initial_graph.edges \ {removed}
                  /\ graph.nodes = initial_graph.nodes
                  /\ diagnostics = <<"Removed edge to break cycle: ('" \o removed[1]
                                     \o "', '" \o removed[2] \o "')">>

\* A run that ended after its graph had X -> Y and Y -> X as its only cycle,
\* with the edge Y -> X removed.
C3_Witness ==
    /\ pc = "done"
    /\ OnlyCycleIsMutualPair(initial_graph, "X", "Y")
    /\ <<"X", "Y">> \in graph.edges
    /\ <<"Y", "X">> \notin graph.edges
    /\ Len(diagnostics) = 1

(***************************************************************************)
(* The recursion of look4element, call by call                             *)
(***************************************************************************)
\* The interpreter's recursion limit: process_xsd_files leaves it as the
\* interpreter starts with it (its sys.setrecursionlimit call is a comment).
PythonRecursionLimit == 1000

\* The frames under the outermost look4element: the module,
\* process_xsd_files and update_TABLE_COLUMNS_with_xsd_file.
FramesBelowWalk == 3

\* X, whose sequence holds an element of type X.
SelfTypedDoc ==
    Document("r.xsd",
        << XsComplexType("X",
               << XsSequence(<< XsElement("child", "X", None, None) >>) >>) >>)

\* X holds an element of type Y, and Y an element of type X.
IndirectlySelfTypedDoc ==
    Document("i.xsd",
        << XsComplexType("X",
               << XsSequence(<< XsElement("y", "Y", None, None) >>) >>),
           XsComplexType("Y",
               << XsSequence(<< XsElement("x", "X", None, None) >>) >>) >>)

SelfTypedDocs == {SelfTypedDoc, IndirectlySelfTypedDoc}

DepthDocs == SelfTypedDocs \cup {ChoiceDoc, SimpleTypeDoc, MutualDoc}

\* The node of the first recursive call look4element makes on el: the first
\* child its loops visit or, where it has none, the complex type its type
\* attribute names (NoElement where it makes no recursive call).
FirstCallOf(root, ns, el) ==
    IF ChildrenOf(el, ns) # <<>> THEN Head(ChildrenOf(el, ns))
    ELSE find_complex_type(root, ns, el.type)

InitDepth ==
    /\ NAMESPACE_DICT = EmptyDict
    /\ args \in [failOnBadType : BOOLEAN, as_is : {FALSE}]
    /\ xsd_files \in {<<d>> : d \in DepthDocs}
    /\ hash_seed = 0
    /\ pc = "call"
    /\ recursion_level = 0
    /\ frames = FramesBelowWalk
    /\ entered = xsd_files[1].root
    /\ AccumulatorsEmpty
    /\ NormIdle
    /\ GraphIdle

\* A call of look4element on the node entered, up to the first recursive call
\* it makes.  The interpreter refuses the call's frame beyond its recursion
\* limit; the function's guard refuses a level beyond MAX_RECURSE_LEVEL; no
\* table is committed before the first recursive call returns.
CallLook4element ==
    /\ pc = "call"
    /\ IF frames + 1 > PythonRecursionLimit
       THEN /\ error' = "RecursionError"
            /\ pc' = "failed"
            /\ UNCHANGED depthVars
       ELSE IF recursion_level > MAX_RECURSE_LEVEL
       THEN /\ error' = "MaxRecursion"
            /\ pc' = "failed"
            /\ UNCHANGED depthVars
       ELSE \E e \in {FirstCallOf(xsd_files[1].root, XS, entered)} :
               IF e = NoElement
               THEN /\ pc' = "returning"
                    /\ UNCHANGED <<error, recursion_level, entered>>
                    /\ frames' = frames + 1
               ELSE /\ pc' = "call"
                    /\ recursion_level' = recursion_level + 1
                    /\ frames' = frames + 1
                    /\ entered' = e
                    /\ UNCHANGED error
    /\ UNCHANGED <<NAMESPACE_DICT, USER_TYPES, HASH_TABLE_TABLES_GENERATED,
                   TABLE_COLUMNS, TABLE_COLUMNS_keys, dict_relationships,
                   files_done, args, xsd_files, hash_seed, ops_done, last_op>>
    /\ UNCHANGED normVars
    /\ UNCHANGED graphVars

NextDepth == CallLook4element

SpecDepth == InitDepth /\ [][NextDepth]_vars

\* C11: look4element is never entered beyond MAX_RECURSE_LEVEL + 1, no table
\* or relationship is changed on the way down, and the walk of a document
\* whose complex type holds, directly or indirectly, an element of its own
\* type ends with MaxRecursion.
C11_SelfTypedEndsWithMaxRecursion ==
    /\ recursion_level <= MAX_RECURSE_LEVEL + 1
    /\ TABLE_COLUMNS = EmptyDict /\ dict_relationships = EmptyDict
    /\ (xsd_files[1] \in SelfTypedDocs /\ pc \in {"failed", "returning"}) =>
           error = "MaxRecursion"

(***************************************************************************)
(* The walk of one document: cardinality and placement of a reference      *)
(***************************************************************************)
\* The walk of OrderDoc with the reference of occurrence 0..unbounded, alone
\* on the command line, has just ended.
OrderWalked ==
    /\ last_op.op = "walk"
    /\ xsd_files = << OrderDoc(<<"0", "unbounded">>) >>
    /\ error = "none"

\* The relationship records of table parent that reference table referenced.
RecordsOf(parent, referenced) ==
    { dict_relationships[k][1] : k \in
        { k \in DOMAIN dict_relationships :
            /\ StartsWith(k, parent \o ";")
            /\ dict_relationships[k][1][1] = referenced } }

\* The foreign key of the reference is on Item and references Order, and
\* Order has no foreign key referencing Item.
ForeignKeyIsOnItem ==
    /\ {"Item", "Order"} \subseteq DOMAIN TABLE_COLUMNS
    /\ \E col \in TABLE_COLUMNS["Item"] : Contains(col, "REFERENCES Order(OrderId)")
    /\ \A col \in TABLE_COLUMNS["Order"] : ~Contains(col, "REFERENCES Item")

\* C12 as stated: the reference of occurrence 0..unbounded from Order to Item
\* is recorded with the cardinality "1..*", and the foreign key is on Item.
C12_UnboundedFromZeroIsOneToMany ==
    OrderWalked =>
        /\ RecordsOf("Order", "Item") = { <<"Item", "1..*">> }
        /\ ForeignKeyIsOnItem

\* C12: the reference of occurrence 0..unbounded from Order to Item is
\* recorded once, with the literal cardinality "0..*", and the foreign key is
\* on Item referencing Order, not on Order referencing Item.
C12_UnboundedFromZeroIsZeroToMany ==
    OrderWalked =>
        /\ RecordsOf("Order", "Item") = { <<"Item", "0..*">> }
        /\ ForeignKeyIsOnItem

\* The walk of that document has ended with the constraint committed to Item.
C12_Witness ==
    /\ OrderWalked
    /\ "CONSTRAINT FK_Order_Item FOREIGN KEY (OrderId_0) REFERENCES Order(OrderId)"
           \in TABLE_COLUMNS["Item"]
    /\ "Order;FK_Order_Item" \in DOMAIN dict_relationships

\* C13 as stated: a leaf element of a built-in scalar type, with no ref and
\* the default occurrence, inside the type Person, yields in table Person the
\* one column "<name> nvarchar(max) NOT NULL" and no foreign-key column,
\* constraint or relationship record of Person, whatever tables the walk
\* registered before it.
C13_ScalarLeafIsOneColumn ==
    \A n \in LeafNames :
        (/\ last_op.op = "walk"
         /\ xsd_files = << LeafDoc(n) >>
         /\ error = "none")
        => /\ "Person" \in DOMAIN TABLE_COLUMNS
           /\ { col \in TABLE_COLUMNS["Person"] :
                    StartsWith(col, n \o " ") \/ StartsWith(col, n \o "Id ") }
                  = { n \o " nvarchar(max) NOT NULL" }
           /\ "FirstName nvarchar(max) NOT NULL" \in TABLE_COLUMNS["Person"]
           /\ \A col \in TABLE_COLUMNS["Person"] : ~Contains(col, "FOREIGN KEY")
           /\ \A k \in DOMAIN dict_relationships : ~StartsWith(k, "Person;")

(***************************************************************************)
(* A choice inside a complex type, call by call: the call of look4element  *)
(* on the <choice> returns, then the enclosing call returns.               *)
(***************************************************************************)
\* The built-in types the two alternatives of the choice take.
ScalarTypes == {"xs:string", "xs:int", "xs:boolean", "xs:date"}

\* Pay with a choice between A and B, directly under the complex type or
\* inside its sequence.
ChoiceTypeDoc(typeA, typeB, in_sequence) ==
    LET choice == XsChoice(<< XsElement("A", typeA, None, None),
                             XsElement("B", typeB, "1", None) >>)
    IN Document("c.xsd",
           << XsComplexType("Pay",
                  IF in_sequence THEN << XsSequence(<< choice >>) >>
                  ELSE << choice >>) >>)

ChoiceTypeDocs ==
    {ChoiceTypeDoc(a, b, q) : a \in ScalarTypes, b \in ScalarTypes, q \in BOOLEAN}

\* The node whose <choice> child the walk of doc reaches: the complex type,
\* or its sequence.
EnclosingNodeOf(doc) ==
    LET type == Head(FindAll(doc.root, XS \o "complexType"))
    IN IF FindAll(type, XS \o "choice") # <<>> THEN type
       ELSE Head(FindAll(type, XS \o "sequence"))

\* look4element has been called on the node that encloses the choice, with
\* the parent "Pay" and the counter 0, and is about to call itself on the
\* <choice>.
InitChoice ==
    /\ xsd_files \in {<<d>> : d \in ChoiceTypeDocs}
    /\ NAMESPACE_DICT = NamespaceDictOf(xsd_files[1])
    /\ args \in [failOnBadType : BOOLEAN, as_is : {FALSE}]
    /\ hash_seed = 0
    /\ pc = "in table"
    /\ entered = EnclosingNodeOf(xsd_files[1])
    /\ recursion_level = IF entered.tag = XS \o "sequence" THEN 2 ELSE 1
    /\ frames = FramesBelowWalk + recursion_level + 1
    /\ AccumulatorsEmpty
    /\ NormIdle
    /\ GraphIdle

\* The call of look4element on the <choice>, with current_counter_choice
\* incremented, returns its columns to the enclosing call.
WalkChoice ==
    /\ pc = "in table"
    /\ \E rez \in {look4element(Globals, xsd_files[1].root, XS,
                                Head(FindAll(entered, XS \o "choice")), "Pay",
                                recursion_level + 1, args.failOnBadType, TRUE, 1)} :
          /\ pc' = IF Raised(rez.g) THEN "failed" ELSE "choice returned"
          /\ SetGlobals(rez.g)
          /\ dict_relationships' = rez.g.dict_relationships
          /\ last_op' = [op |-> "choice", counter_choice |-> 1,
                         returned |-> rez.cols, before |-> Globals]
    /\ UNCHANGED <<files_done, args, xsd_files, hash_seed, ops_done>>
    /\ UNCHANGED normVars
    /\ UNCHANGED depthVars
    /\ UNCHANGED graphVars

\* The enclosing call returns: it has processed the <choice> with the
\* columns returned and flushed its columns with its own counter, 0.  The
\* globals are those of the call from the globals it started with.
ReturnFromTable ==
    /\ pc = "choice returned"
    /\ \E rez \in {look4element(last_op.before, xsd_files[1].root, XS, entered, "Pay",
                                recursion_level, args.failOnBadType, TRUE, 0)} :
          /\ pc' = IF Raised(rez.g) THEN "failed" ELSE "table returned"
          /\ SetGlobals(rez.g)
          /\ dict_relationships' = rez.g.dict_relationships
          /\ last_op' = [op |-> "table", counter_choice |-> 0,
                         returned |-> rez.cols, before |-> last_op.before]
    /\ UNCHANGED <<files_done, args, xsd_files, hash_seed, ops_done>>
    /\ UNCHANGED normVars
    /\ UNCHANGED depthVars
    /\ UNCHANGED graphVars

NextChoice == WalkChoice \/ ReturnFromTable

SpecChoice == InitChoice /\ [][NextChoice]_vars

EndsWith(s, suffix) ==
    Len(s) >= Len(suffix) /\ SubSeq(s, Len(s) - Len(suffix) + 1, Len(s)) = suffix

\* col is a nullable column of the given name tagged with choice group 1.
TaggedColumn(col, name) ==
    StartsWith(col, name \o " ") /\ EndsWith(col, " NULL/*counter_choice=1*/")

\* Some table holds a column of A or of B.
ChoiceColumnsCommitted(table_columns) ==
    \E t \in DOMAIN table_columns : \E col \in table_columns[t] :
        StartsWith(col, "A ") \/ StartsWith(col, "B ")

\* C14: when the call on the choice returns, A and B are two nullable
\* columns tagged with the same choice group in the column list in hand and
\* no table holds them; when the enclosing call of table Pay, whose counter
\* is 0, returns, Pay holds both; and no step other than the return of that
\* call commits them.
C14_ChoiceColumnsCommittedAtTableBoundary ==
    /\ [](pc = "choice returned" =>
            /\ \E a, b \in Range(Split(last_op.returned, ", ")) :
                  /\ TaggedColumn(a, "A") /\ TaggedColumn(b, "B")
                  /\ last_op.returned = a \o ", " \o b
            /\ last_op.counter_choice > 0
            /\ ~ChoiceColumnsCommitted(TABLE_COLUMNS))
    /\ [](pc = "table returned" =>
            /\ "Pay" \in DOMAIN TABLE_COLUMNS
            /\ \E a, b \in TABLE_COLUMNS["Pay"] :
                  TaggedColumn(a, "A") /\ TaggedColumn(b, "B")
            /\ \A t \in DOMAIN TABLE_COLUMNS \ {"Pay"} : \A col \in TABLE_COLUMNS[t] :
                  ~StartsWith(col, "A ") /\ ~StartsWith(col, "B "))
    /\ [][(~ChoiceColumnsCommitted(TABLE_COLUMNS) /\ ChoiceColumnsCommitted(TABLE_COLUMNS'))
            => (pc' = "table returned" /\ last_op'.counter_choice = 0)]_vars

\* The enclosing call of a choice between a string and an int has returned
\* and Pay holds the two tagged columns.
C14_Witness ==
    /\ pc = "table returned"
    /\ "Pay" \in DOMAIN TABLE_COLUMNS
    /\ "A nvarchar(max) NULL/*counter_choice=1*/" \in TABLE_COLUMNS["Pay"]
    /\ "B int NULL/*counter_choice=1*/" \in TABLE_COLUMNS["Pay"]
    /\ last_op.before.TABLE_COLUMNS = EmptyDict

(***************************************************************************)
(* The generated statements                                                *)
(***************************************************************************)
\* The table a CREATE TABLE statement names.
StatementTable(statement) ==
    LET rest == SubSeq(statement, Len("CREATE TABLE ") + 1, Len(statement))
    IN SubSeq(rest, 1, Find(rest, " (") - 1)

\* The column definitions a CREATE TABLE statement lists, in its order.
StatementColumns(statement) ==
    LET open == Find(statement, " (")
        last == IF Find(statement, ");") > 0 THEN Find(statement, ");") - 1
                ELSE Len(statement) - 1
    IN Split(SubSeq(statement, open + 2, last), ", ")

\* cols is the primary key, then columns that are no constraint, then
\* FOREIGN KEY constraints only.
PrimaryKeyPlainThenForeignKeys(cols) ==
    /\ cols # <<>>
    /\ Contains(cols[1], "PRIMARY KEY")
    /\ \A j \in 2..Len(cols) : ~Contains(cols[j], "PRIMARY KEY")
    /\ \A j, k \in 2..Len(cols) :
          (j < k /\ Contains(cols[j], "FOREIGN KEY")) => Contains(cols[k], "FOREIGN KEY")

\* C15: every CREATE TABLE statement generated lists the columns of its
\* table once each: the primary key first, then every plain column, then
\* every FOREIGN KEY constraint; and every table has its statement.
C15_PrimaryKeyPlainColumnsForeignKeys ==
    pc = "done" =>
        \E parsed \in {[i \in DOMAIN list_create_table_sentences |->
                          [table |-> StatementTable(list_create_table_sentences[i]),
                           cols |-> StatementColumns(list_create_table_sentences[i])]]} :
           /\ \A i \in DOMAIN parsed :
                 /\ StartsWith(list_create_table_sentences[i], "CREATE TABLE ")
                 /\ parsed[i].table \in DOMAIN TABLE_COLUMNS
                 /\ PrimaryKeyPlainThenForeignKeys(parsed[i].cols)
                 /\ Range(parsed[i].cols) = TABLE_COLUMNS[parsed[i].table]
                 /\ Len(parsed[i].cols) = Cardinality(TABLE_COLUMNS[parsed[i].table])
           /\ {parsed[i].table : i \in DOMAIN parsed} = DOMAIN TABLE_COLUMNS

\* A run that ended with the statement of X, which references Y and Z, under
\* the hash seed that iterates the column set in the other direction.
C15_Witness ==
    /\ pc = "done"
    /\ hash_seed = 1
    /\ \E statement \in Range(list_create_table_sentences) :
          /\ StatementTable(statement) = "X"
          /\ Len(StatementColumns(statement)) = 5
          /\ StatementColumns(statement)[1] = "XId bigint PRIMARY KEY NOT NULL"
          /\ Contains(StatementColumns(statement)[5], "FOREIGN KEY")

\* The table a DROP TABLE statement names.
DroppedTable(statement) ==
    LET at == Find(statement, ") DROP TABLE ")
        rest == SubSeq(statement, at + Len(") DROP TABLE "), Len(statement))
    IN SubSeq(rest, 1, Find(rest, ";") - 1)

\* C16: the CREATE TABLE list names the tables in the reverse of the order in
\* which the DROP TABLE list names them, and each list names every table of
\* TABLE_COLUMNS exactly once and no other table.
C16_CreateListReversesDropList ==
    pc = "done" =>
        LET dropped == [i \in DOMAIN list_drop_table_sentences |->
                           DroppedTable(list_drop_table_sentences[i])]
            created == [i \in DOMAIN list_create_table_sentences |->
                           StatementTable(list_create_table_sentences[i])]
        IN /\ created = Reversed(dropped)
           /\ Range(dropped) = DOMAIN TABLE_COLUMNS
           /\ Range(created) = DOMAIN TABLE_COLUMNS
           /\ Len(dropped) = Cardinality(DOMAIN TABLE_COLUMNS)
           /\ Len(created) = Cardinality(DOMAIN TABLE_COLUMNS)
           /\ \A i \in DOMAIN list_drop_table_sentences :
                 list_drop_table_sentences[i] = DropTableStatement(dropped[i])

\* A run that ended after a cycle had been broken, with the four tables of
\* the document in both lists.
C16_Witness ==
    /\ pc = "done"
    /\ Len(diagnostics) > 0
    /\ Len(list_drop_table_sentences) = 4
    /\ Len(list_create_table_sentences) = 4
    /\ DroppedTable(list_drop_table_sentences[1])
           = StatementTable(list_create_table_sentences[4])

\* The tables the FOREIGN KEY constraints of table t reference.
ReferencedTables(t) ==
    { LET rest == SubSeq(col, Find(col, "REFERENCES ") + Len("REFERENCES "), Len(col))
      IN SubSeq(rest, 1, Find(rest, "(") - 1) :
      col \in {c \in TABLE_COLUMNS[t] : Contains(c, "FOREIGN KEY")} }

\* C17 as stated: the graph create_graph returns has the tables of
\* TABLE_COLUMNS as its nodes and no other node, and the pairs <<table,
\* table its FOREIGN KEY constraints reference>> as its edges and no other
\* edge: a table without foreign keys is a node with no edge out of it.
C17_GraphIsTablesAndReferences ==
    pc \in {"break", "sorted", "done"} =>
        /\ initial_graph.nodes = DOMAIN TABLE_COLUMNS
        /\ initial_graph.edges =
               UNION { {<<t, r>> : r \in ReferencedTables(t)} :
                       t \in DOMAIN TABLE_COLUMNS }

(***************************************************************************)
(* Relationship records after a sequence of resolutions                    *)
(***************************************************************************)
\* The keys under which create_fk_field records the relationship of field F
\* of parent P: the key of the "one" branch and the key of the "many" branch.
KeysOfRelationship(P, F) ==
    {P \o ";FK_" \o P \o "_" \o F \o "Id", P \o ";FK_" \o P \o "_" \o F}

\* C18 as stated: after a resolution of field F of parent P, whatever
\* resolutions of it came before, the relationship map holds one record of
\* that relationship, with the referenced table and the cardinality of this
\* latest resolution.
C18_OneRecordOfLatestResolution ==
    (last_op.op = "fk" /\ error = "none") =>
        LET keys == KeysOfRelationship(last_op.parent, last_op.field_fk_name)
                    \cap DOMAIN dict_relationships
        IN /\ Cardinality(keys) = 1
           /\ \A k \in keys :
                 dict_relationships[k] =
                     << <<last_op.table_reference_name, get_cardinality(last_op.el)>> >>

(***************************************************************************)
(* Two documents in one run against each document on its own               *)
(***************************************************************************)
\* What a run on doc alone leaves: the walk of doc from the globals as the
\* interpreter leaves them after import.
WalkedAlone(doc) ==
    update_TABLE_COLUMNS_with_xsd_file(
        [NAMESPACE_DICT |-> EmptyDict, USER_TYPES |-> EmptyDict,
         HASH_TABLE_TABLES_GENERATED |-> {}, TABLE_COLUMNS |-> EmptyDict,
         TABLE_COLUMNS_keys |-> <<>>, dict_relationships |-> EmptyDict,
         raised |-> "none"],
        doc, args.failOnBadType, args.as_is)

\* The records of relationship map inner are records of the map outer.
RecordsReach(inner, outer) ==
    \A k \in DOMAIN inner : k \in DOMAIN outer /\ outer[k] = inner[k]

\* C19 as stated: when a run has processed D1 and then D2, the tables, the
\* user types and the relationship records of D2 are those of a run on D2
\* alone, and the relationship records of D1 are in the output as well.
C19_SecondDocumentAsAlone ==
    (/\ last_op.op = "walk"
     /\ files_done = 2
     /\ Len(xsd_files) = 2
     /\ error = "none")
    => \E first \in {WalkedAlone(xsd_files[1])}, alone \in {WalkedAlone(xsd_files[2])} :
          /\ \A t \in DOMAIN alone.TABLE_COLUMNS :
                /\ t \in DOMAIN TABLE_COLUMNS
                /\ TABLE_COLUMNS[t] = alone.TABLE_COLUMNS[t]
          /\ \A u \in DOMAIN alone.USER_TYPES :
                u \in DOMAIN USER_TYPES /\ USER_TYPES[u] = alone.USER_TYPES[u]
          /\ RecordsReach(alone.dict_relationships, dict_relationships)
          /\ RecordsReach(first.dict_relationships, dict_relationships)

(***************************************************************************)
(* Foreign keys of the tables a walk leaves                                *)
(***************************************************************************)
\* The table and the column a FOREIGN KEY constraint references.
ReferenceOf(col) ==
    LET rest == SubSeq(col, Find(col, "REFERENCES ") + Len("REFERENCES "), Len(col))
        open == Find(rest, "(")
    IN [table |-> SubSeq(rest, 1, open - 1),
        column |-> SubSeq(rest, open + 1, Len(rest) - 1)]

\* C20 as stated: when a walk has completed, every FOREIGN KEY constraint of
\* every table references a table of TABLE_COLUMNS, and the column it
\* references is the primary-key column of that table.
C20_ForeignKeysReferenceRegisteredTables ==
    (last_op.op = "walk" /\ error = "none") =>
        \A t \in DOMAIN TABLE_COLUMNS :
            \A col \in {c \in TABLE_COLUMNS[t] : Contains(c, "FOREIGN KEY")} :
                /\ ReferenceOf(col).table \in DOMAIN TABLE_COLUMNS
                /\ (ReferenceOf(col).column \o " bigint PRIMARY KEY NOT NULL")
                       \in TABLE_COLUMNS[ReferenceOf(col).table]

(***************************************************************************)
(* Unnamed groups: choices and sequences nested in one type                *)
(***************************************************************************)
\* The walk of the one document of the command line has just ended.
WalkedOnly(doc) ==
    /\ last_op.op = "walk"
    /\ xsd_files = << doc >>
    /\ error = "none"

\* The column definitions of the leaf of that name, in whatever table.
ColumnsOf(name) ==
    UNION { {col \in TABLE_COLUMNS[t] : StartsWith(col, name \o " ")} :
            t \in DOMAIN TABLE_COLUMNS }

\* The text of the choice tag of a column definition, "" where it has none.
ChoiceTagOf(col) ==
    LET at == Find(col, CONSTANT_COUNTER_CHOICE_STR)
    IN IF at = 0 THEN "" ELSE SubSeq(col, at, Len(col))

\* col is a nullable column tagged with a choice group.
NullableInChoice(col) ==
    /\ ChoiceTagOf(col) # ""
    /\ EndsWith(col, " NULL" \o ChoiceTagOf(col))

\* The documents of NestedDocs that have a choice among the nested groups.
NestedInChoiceDocs ==
    {NestedDoc(kinds) : kinds \in
        {k \in UNION {ListsOf(GroupKinds, n) : n \in 0..MaxDepth} :
            "choice" \in Range(k)}}

\* C21 as stated: the leaves A (minOccurs absent) and B (minOccurs 0) lie
\* below a choice group, directly or inside groups nested in it; after the
\* walk each has a column, and every column of A and of B is nullable and
\* carries a choice tag.
C21_ColumnsBelowChoiceAreTagged ==
    (/\ last_op.op = "walk"
     /\ error = "none"
     /\ last_op.doc \in NestedInChoiceDocs)
    => /\ ColumnsOf("A") # {} /\ ColumnsOf("B") # {}
       /\ \A col \in ColumnsOf("A") \cup ColumnsOf("B") : NullableInChoice(col)

\* C22 as stated: the column of A, of the first choice of the type, and the
\* column of B, of its second choice, both carry a choice tag, and the two
\* tags differ, however the two choices lie in the type.
C22_DistinctChoicesDistinctCounters ==
    \A shape \in ChoiceShapes :
        WalkedOnly(TwoChoiceDoc(shape)) =>
            /\ ColumnsOf("A") # {} /\ ColumnsOf("B") # {}
            /\ \A a \in ColumnsOf("A"), b \in ColumnsOf("B") :
                  /\ NullableInChoice(a) /\ NullableInChoice(b)
                  /\ ChoiceTagOf(a) # ChoiceTagOf(b)

(***************************************************************************)
(* Nullability of the columns outside a choice                             *)
(***************************************************************************)
\* The element X of a document of NillableDocs.
ElementXOf(doc) == Head(Head(doc.root.kids[2].kids).kids)

\* " NULL" for an element whose minOccurs is 0 or whose nillable is true in
\* whatever case, " NOT NULL" for any other.
NullabilityBy(minOccurs, nillable) ==
    IF minOccurs = "0" \/ nillable \in {"true", "True"} THEN " NULL" ELSE " NOT NULL"

\* The columns of table t whose definition starts with prefix.
ColumnsStarting(t, prefix) ==
    IF t \in DOMAIN TABLE_COLUMNS
    THEN {col \in TABLE_COLUMNS[t] : StartsWith(col, prefix)}
    ELSE {}

C24_UnnamedGroupsMergeIntoNamedAncestor ==
    /\ (/\ last_op.op = "walk"
        /\ error = "none"
        /\ last_op.doc \in NestedDocs)
       => /\ DOMAIN TABLE_COLUMNS = {"Pay", "k_schema_xsd"}
          /\ HASH_TABLE_TABLES_GENERATED = {"Pay", "k_schema_xsd"}
          /\ "PayId bigint PRIMARY KEY NOT NULL" \in TABLE_COLUMNS["Pay"]
          /\ Cardinality(ColumnsStarting("Pay", "A nvarchar(max) ")) = 1
          /\ Cardinality(ColumnsStarting("Pay", "B int ")) = 1
          /\ Cardinality(TABLE_COLUMNS["Pay"]) = 3
          /\ ColumnsStarting("k_schema_xsd", "A ") = {}
          /\ ColumnsStarting("k_schema_xsd", "B ") = {}
    /\ WalkedOnly(InlineOrderDoc("xs:string"))
       => /\ DOMAIN TABLE_COLUMNS = {"Order", "Item", "n_schema_xsd"}
          /\ ColumnsStarting("Order", "note ") = {"note nvarchar(max) NOT NULL"}
          /\ ColumnsStarting("Item", "note ") = {}
          /\ ColumnsStarting("n_schema_xsd", "note ") = {}

\* The walk of Pay > sequence > choice > sequence > (A, B) has ended with
\* the two columns in Pay.
C24_Witness ==
    /\ WalkedOnly(NestedDoc(<<"sequence", "choice", "sequence">>))
    /\ TABLE_COLUMNS["Pay"] = {"PayId bigint PRIMARY KEY NOT NULL",
                               "A nvarchar(max) NOT NULL", "B int NULL"}

(***************************************************************************)
(* The loop of look4element over the top-level elements, call by call: the *)
(* call of look4element on the element returns, then process_element on    *)
(* the element returns.                                                    *)
(***************************************************************************)
\* The types the two top-level elements take: two declared complex types
\* (one without content), a built-in scalar and an unknown name.
AliasTypes == {"Empty", "Addr", "xs:string", "xs:foo"}

\* The elements first and second, then the complex types Empty and
\* Addr(Street).
AliasDoc(type1, type2) ==
    Document("a.xsd",
        << XsElement("first", type1, None, None),
           XsElement("second", type2, None, None),
           XsComplexType("Empty", <<>>),
           XsComplexType("Addr",
               << XsSequence(<< XsElement("Street", "xs:string", None, None) >>) >>) >>)

AliasDocs == {AliasDoc(t1, t2) : t1 \in AliasTypes, t2 \in AliasTypes}

\* The <element> children of the root, which the first loop visits.
TopLevelElements == FindAll(xsd_files[1].root, XS \o "element")

\* update_TABLE_COLUMNS_with_xsd_file has built the user types of the
\* document and has called look4element on its root, which is about to
\* visit the first <element> child with an empty column list.
InitAlias ==
    /\ xsd_files \in {<<d>> : d \in AliasDocs}
    /\ NAMESPACE_DICT = NamespaceDictOf(xsd_files[1])
    /\ args \in [failOnBadType : BOOLEAN, as_is : BOOLEAN]
    /\ hash_seed = 0
    /\ pc = "element loop"
    /\ USER_TYPES = build_user_types(
                        [NAMESPACE_DICT |-> NAMESPACE_DICT, USER_TYPES |-> EmptyDict,
                         HASH_TABLE_TABLES_GENERATED |-> {}, TABLE_COLUMNS |-> EmptyDict,
                         TABLE_COLUMNS_keys |-> <<>>, dict_relationships |-> EmptyDict,
                         raised |-> "none"],
                        XS, xsd_files[1].root).USER_TYPES
    /\ HASH_TABLE_TABLES_GENERATED = {}
    /\ TABLE_COLUMNS = EmptyDict
    /\ TABLE_COLUMNS_keys = <<>>
    /\ dict_relationships = EmptyDict
    /\ error = "none"
    /\ files_done = 0
    /\ ops_done = 0
    /\ last_op = [op |-> "none", cols |-> ""]
    /\ entered = None
    /\ recursion_level = 0
    /\ frames = FramesBelowWalk + 1
    /\ NormIdle
    /\ GraphIdle

\* rez = look4element(dict_relationships, root, ns, e, e.get('name') or
\*                    parent, recurse_level + 1, fail=fail)
WalkElement ==
    /\ pc = "element loop"
    /\ ops_done < Len(TopLevelElements)
    /\ \E e \in {TopLevelElements[ops_done + 1]} :
       \E rez \in {look4element(Globals, xsd_files[1].root, XS, e,
                                NameOr(e, replace_characters(xsd_files[1].file)),
                                recursion_level + 1, args.failOnBadType, TRUE, 0)} :
          /\ pc' = IF Raised(rez.g) THEN "failed" ELSE "element walked"
          /\ SetGlobals(rez.g)
          /\ dict_relationships' = rez.g.dict_relationships
          /\ entered' = e
          /\ last_op' = [op |-> "look4element", cols |-> last_op.cols,
                         returned |-> rez.cols, before |-> TABLE_COLUMNS]
    /\ UNCHANGED <<files_done, args, xsd_files, hash_seed, ops_done,
                   recursion_level, frames>>
    /\ UNCHANGED normVars
    /\ UNCHANGED graphVars

\* cols = process_element(e, parent, fail, normalize, counter_choice,
\*                        concat_cols(cols, rez[1]), ns, root, dict_relationships)
ProcessElement ==
    /\ pc = "element walked"
    /\ \E pe \in {process_element(Globals, entered,
                                   replace_characters(xsd_files[1].file),
                                   args.failOnBadType, ~args.as_is, 0,
                                   concat_cols(last_op.cols, last_op.returned),
                                   XS, xsd_files[1].root)} :
          /\ pc' = IF Raised(pe.g) THEN "failed" ELSE "element loop"
          /\ SetGlobals(pe.g)
          /\ dict_relationships' = pe.g.dict_relationships
          /\ last_op' = [op |-> "process_element", cols |-> pe.cols,
                         before |-> TABLE_COLUMNS]
    /\ ops_done' = ops_done + 1
    /\ UNCHANGED <<files_done, args, xsd_files, hash_seed>>
    /\ UNCHANGED depthVars
    /\ UNCHANGED normVars
    /\ UNCHANGED graphVars

NextAlias == WalkElement \/ ProcessElement

SpecAlias == InitAlias /\ [][NextAlias]_vars

\* C25: when the call of look4element on a childless element whose type
\* names a declared complex type has returned without error, the table of
\* that type is registered and generated and holds its primary key, also
\* for the type Empty, which has no content, and also when an earlier
\* element had registered the table.
C25_TypedElementRegistersItsType ==
    (/\ pc = "element walked"
     /\ entered.kids = <<>>
     /\ is_complex_type(xsd_files[1].root, XS, entered.type))
    => /\ entered.type \in DOMAIN TABLE_COLUMNS
       /\ entered.type \in HASH_TABLE_TABLES_GENERATED
       /\ (entered.type \o "Id bigint PRIMARY KEY NOT NULL")
              \in TABLE_COLUMNS[entered.type]
       /\ entered.type = "Empty" =>
              TABLE_COLUMNS["Empty"] = {"EmptyId bigint PRIMARY KEY NOT NULL"}

\* The call on the first element, of type Empty, has returned: the table
\* Empty was not registered before it and is registered now.
C25_Witness ==
    /\ pc = "element walked"
    /\ entered.name = "first" /\ entered.type = "Empty"
    /\ last_op.before = EmptyDict
    /\ TABLE_COLUMNS = [t \in {"Empty"} |-> {"EmptyId bigint PRIMARY KEY NOT NULL"}]

(***************************************************************************)
(* The references of the emitted CREATE TABLE statements                   *)
(***************************************************************************)
\* The tables the FOREIGN KEY constraints of a CREATE TABLE statement
\* reference.
StatementReferences(statement) ==
    { ReferenceOf(col).table :
        col \in {c \in Range(StatementColumns(statement)) : Contains(c, "FOREIGN KEY")} }

\* C26 as stated: in list_create_table_sentences every table a statement
\* references, other than the table of the statement itself, is the table
\* of a statement earlier in the list.
C26_StatementsReferenceEarlierTables ==
    pc = "done" =>
        \E parsed \in {[i \in DOMAIN list_create_table_sentences |->
                          [table |-> StatementTable(list_create_table_sentences[i]),
                           references |->
                               StatementReferences(list_create_table_sentences[i])]]} :
            \A i \in DOMAIN parsed :
                \A r \in parsed[i].references \ {parsed[i].table} :
                    \E j \in 1..(i - 1) : parsed[j].table = r

(***************************************************************************)
(* The outcomes of a run                                                   *)
(***************************************************************************)
\* C27 as stated: the walk of the documents either goes on to the next
\* document or to the graph stage, or ends with MaxRecursion or with
\* InvalidXMLType (ValueError is the abort of the graph stage); it ends with
\* no other exception.
C27_RunEndsInListedOutcome ==
    /\ pc \in {"walk", "failed"}
    /\ pc = "walk" <=> error = "none"
    /\ pc = "failed" => error \in {"MaxRecursion", "InvalidXMLType", "ValueError"}

(***************************************************************************)
(* Primary keys and column names of the registered tables                  *)
(***************************************************************************)
\* The PRIMARY KEY column definitions of table T.
PrimaryKeysOf(T) == {col \in TABLE_COLUMNS[T] : Contains(col, " PRIMARY KEY")}

\* C28: in every state of the walk of the documents, every registered
\* table T holds exactly one PRIMARY KEY column definition,
\* "<T>Id bigint PRIMARY KEY NOT NULL".
C28_OnePrimaryKeyPerTable ==
    \A T \in DOMAIN TABLE_COLUMNS :
        PrimaryKeysOf(T) = {T \o "Id bigint PRIMARY KEY NOT NULL"}

\* The walk of Person(X), X an unbounded element of type Addr and the first
\* of its sequence, has ended: the many branch was given a blank column
\* list, and Person holds its own primary key and nothing else.
C28_Witness ==
    /\ WalkedOnly(NillableDoc("Addr", None, "unbounded", None))
    /\ TABLE_COLUMNS["Person"] = {"PersonId bigint PRIMARY KEY NOT NULL"}
    /\ "CONSTRAINT FK_Person_X FOREIGN KEY (PersonId_0) REFERENCES Person(PersonId)"
           \in TABLE_COLUMNS["Addr"]
    /\ PrimaryKeysOf("Addr") = {"AddrId bigint PRIMARY KEY NOT NULL"}

\* The name of a column definition or, of a constraint, "CONSTRAINT <name>".
DefinitionName(col) ==
    IF StartsWith(col, "CONSTRAINT ")
    THEN "CONSTRAINT " \o Head(Split(SubSeq(col, Len("CONSTRAINT ") + 1, Len(col)), " "))
    ELSE Head(Split(col, " "))

\* C29 as stated: in every state of the walk of the documents, no table
\* holds two column definitions of one column name, nor two FOREIGN KEY
\* constraints of one constraint name.
C29_ColumnNamesUniquePerTable ==
    \A T \in DOMAIN TABLE_COLUMNS :
        \A c1, c2 \in TABLE_COLUMNS[T] :
            DefinitionName(c1) = DefinitionName(c2) => c1 = c2

\* The non-empty values of the built-in type table.
BuiltInColumnTypes == {it[2] : it \in Range(DEFX2SQLSERVER_items)} \ {None}

\* The type of a column definition "<name> <type> [NOT ]NULL".
ColumnTypeOf(col) ==
    LET parts == Split(col, " ")
    IN IF Len(parts) < 2 THEN "" ELSE parts[2]

\* C30 as stated: every column definition committed to a table, the
\* constraints aside, has a type that is a non-empty value of the built-in
\* type table; no column has the type text "None", in either mode.
C30_ColumnTypesAreBuiltIn ==
    \A T \in DOMAIN TABLE_COLUMNS :
        \A col \in TABLE_COLUMNS[T] :
            ~StartsWith(col, "CONSTRAINT ") => ColumnTypeOf(col) \in BuiltInColumnTypes

=============================================================================
